---- MODULE Spec2Model ----
(***************************************************************************)
(* The NAT-instance workflows Failover, ReplaceInstance, Fallback and       *)
(* Maintenance defined in src/src/stacks/NatInstances.ts with the tasks of *)
(* src/src/constructs/StepFunctions.ts, as a state machine over the route  *)
(* tables, the instance inventory, the image pipeline and the workflow     *)
(* executions.                                                             *)
(***************************************************************************)
EXTENDS Integers, Sequences, FiniteSets, TLC

VARIABLES
  azConfigurations, \* the zone configurations, fixed at construction
  imagePipeline,    \* status of the first image build the pipeline lists
  build,            \* status of the image build started last, "NONE" before
  clock,            \* time passed: minutes of the timed Wait states
  route,            \* route table id -> target of its 0.0.0.0/0 route
  instances,        \* instance id -> instance record
  ex,               \* the executions, in start order
  calls,            \* history: the calls issued so far, status reads aside
  starts            \* external callers: workflow name -> starts still to come

vars ==
  <<azConfigurations, imagePipeline, build, clock, route, instances, ex, calls,
    starts>>

----------------------------------------------------------------------------
\* Bounds of the model.

\* Largest number of zone configurations.
MaxZones == 2
\* Largest number of NAT instances running before any execution starts.
MaxOld == 2
\* Largest number of Failover executions external callers start.
MaxFailoverStarts == 2
\* Number of Replacement executions started close together.
MaxReplaceStarts == 2
\* Number of Maintenance executions started close together.
MaxMaintenanceStarts == 2
\* Number of periods of the connectivity checker rule that are followed.
MaxCheckerPeriods == 2
\* Availability-zone names of the Vpc stack have at most this many characters.
MaxNameLength == 3

----------------------------------------------------------------------------
\* Program constants.

\* maxConcurrency of every Map state.
MAX_CONCURRENCY == 6
\* Whole-execution timeout of the ReplaceInstance state machine, in minutes.
REPLACE_TIMEOUT_MINUTES == 5
\* Whole-execution timeout of the Maintenance state machine, in minutes.
MAINTENANCE_TIMEOUT_MINUTES == 60
\* Period of the connectivity checker rule and timeout of the connectivity
\* checker functions, in seconds.
functionTimeoutInSeconds == 300
\* Seconds between two checks of a connectivity checker run.
CONNECTIVITY_CHECK_INTERVAL == 10

FAILOVER == "NATInstanceFailover"
REPLACE == "NATInstanceReplaceInstance"
FALLBACK == "NATInstanceFallback"
MAINTENANCE == "NATMaintenanceStateMachine"

WorkflowNames == {FAILOVER, REPLACE, FALLBACK, MAINTENANCE}

NAT_INSTANCES_NAME_TAG == "NAT"

\* The error names a failing Task raises.
TaskErrors == {"States.TaskFailed", "States.Timeout"}

----------------------------------------------------------------------------
\* Identifiers. Every id is a pair <<kind, n>> so that any two compare.

AzConfiguration(k) ==
  [availabilityZone |-> k,
   publicSubnetId |-> <<"subnet-public", k>>,
   natGatewayId |-> <<"nat", k>>,
   privateSubnetId |-> <<"subnet-private", k>>,
   privateRouteTableId |-> <<"rtb", k>>]

\* A subnet that is the public subnet of no zone configuration.
OtherSubnet == <<"subnet-other", 0>>

InstanceId(n) == <<"i", n>>

\* The most instances that run before any execution starts: one more than
\* a Map state runs at a time.
ManyInstances == MAX_CONCURRENCY + 1

\* The instance id runInstances returns to item z of execution e: fresh.
NewInstanceId(e, z) == InstanceId(ManyInstances + (e - 1) * MaxZones + z)

Zones == 1..Len(azConfigurations)

EmptyDoc == [f \in {} |-> f]

Has(doc, f) == f \in DOMAIN doc

RECURSIVE SortedSeq(_)
SortedSeq(S) ==
  IF S = {} THEN << >>
  ELSE LET m == CHOOSE x \in S : \A y \in S : x <= y
       IN <<m>> \o SortedSeq(S \ {m})

SeqMap(Op(_), s) == [i \in 1..Len(s) |-> Op(s[i])]

----------------------------------------------------------------------------
\* The execution record and the engine's steps.

NewExecution(wf, first, parent) ==
  [wf |-> wf, status |-> "Running", pc |-> first, cause |-> "",
   parent |-> parent, child |-> 0, ctx |-> EmptyDoc,
   par |-> EmptyDoc, items |-> EmptyDoc]

\* Mutant: no state machine sets a timeout.
TimeoutMinutes_None(wf) == 0

\* Whole-execution timeout in minutes; 0 for a state machine that sets none.
TimeoutMinutes(wf) ==
  IF wf = REPLACE THEN REPLACE_TIMEOUT_MINUTES
  ELSE IF wf = MAINTENANCE THEN MAINTENANCE_TIMEOUT_MINUTES
  ELSE 0

\* Execution e can take a step.
Active(e) ==
  /\ e \in 1..Len(ex)
  /\ ex[e].status = "Running"

At(e, wf, pc) == Active(e) /\ ex[e].wf = wf /\ ex[e].pc = pc

\* What an execution that has ended keeps: its status, the state it ended
\* in, the cause of a failure, and its output.
Ended(x, status, pc, cause, output) ==
  [x EXCEPT !.status = status, !.pc = pc, !.cause = cause, !.ctx = output,
            !.par = EmptyDoc, !.items = EmptyDoc]

\* A terminal Fail state with its cause.
FailState(x, name, error) == Ended(x, "Failed", name, error, EmptyDoc)

\* The last state has ended with the given output.
Succeed(x, output) == Ended(x, "Succeeded", "End", "", output)

\* The items of a Map state: one per element of the items path, queued.
MapItems(list, first) ==
  [i \in 1..Len(list) |-> [pc |-> "Queued", first |-> first, ctx |-> list[i]]]

InFlight(its) == {i \in 1..Len(its) : its[i].pc \notin {"Queued", "Done"}}

\* Mutant: the Map states set no maxConcurrency.
ItemAt_Unbounded(e, m, i, pc) ==
  /\ Has(ex[e].items, m)
  /\ i \in 1..Len(ex[e].items[m])
  /\ LET it == ex[e].items[m][i]
     IN it.pc = pc \/ (it.pc = "Queued" /\ it.first = pc)

\* Item i of map m of execution e stands at state pc of its item processor;
\* a queued item starts only while fewer than maxConcurrency are in flight.
ItemAt(e, m, i, pc) ==
  /\ Has(ex[e].items, m)
  /\ i \in 1..Len(ex[e].items[m])
  /\ LET it == ex[e].items[m][i]
     IN \/ it.pc = pc
        \/ /\ it.pc = "Queued"
           /\ it.first = pc
           /\ Cardinality(InFlight(ex[e].items[m])) < MAX_CONCURRENCY

\* Mutant: a Map state over no item never ends.
AllDone_SomeItem(its) ==
  /\ Len(its) > 0
  /\ \A i \in 1..Len(its) : its[i].pc = "Done"

AllDone(its) == \A i \in 1..Len(its) : its[i].pc = "Done"

\* The output of a Map state: the outputs of its items, in order.
MapOutput(its) == [i \in 1..Len(its) |-> its[i].ctx]

Call(api, e, arg, ok) == [api |-> api, by |-> e, arg |-> arg, ok |-> ok]

----------------------------------------------------------------------------
\* The provider operations the tasks call.

\* Mutant: replacing a route with the target it has fails and leaves the
\* route without a target.
ReplaceRoute_OnlyNewTarget(r, routeTableId, target) ==
  IF r[routeTableId] = target
  THEN [r EXCEPT ![routeTableId] = <<"blackhole", 0>>]
  ELSE [r EXCEPT ![routeTableId] = target]

\* ec2:replaceRoute of the 0.0.0.0/0 route of a route table.
ReplaceRoute(r, routeTableId, target) ==
  [r EXCEPT ![routeTableId] = target]

\* Mutant: the listing does not filter on the instance state.
NatInstancesFilter_AnyState(i) ==
  /\ instances[i].tagName = NAT_INSTANCES_NAME_TAG
  /\ instances[i].tagStateMachine = "NATInstanceReplaceInstance"

\* The instances the three filters of describeInstances select.
NatInstancesFilter(i) ==
  /\ instances[i].tagName = NAT_INSTANCES_NAME_TAG
  /\ instances[i].tagStateMachine = "NATInstanceReplaceInstance"
  /\ instances[i].state = "running"

InstanceDescription(i) ==
  [InstanceId |-> i, SubnetId |-> instances[i].subnet]

\* The instances of reservation r that pass the filters, as numbers.
ReservationMembers(r) ==
  {i[2] : i \in {j \in DOMAIN instances :
                   NatInstancesFilter(j) /\ instances[j].reservation = r}}

\* ec2:describeInstances: the matching instances grouped by reservation.
DescribeInstances ==
  LET rs == {instances[i].reservation :
               i \in {j \in DOMAIN instances : NatInstancesFilter(j)}}
      Reservation(r) ==
        [Instances |->
           SeqMap(LAMBDA n : InstanceDescription(InstanceId(n)),
                  SortedSeq(ReservationMembers(r)))]
  IN [Reservations |-> SeqMap(Reservation, SortedSeq(rs))]

----------------------------------------------------------------------------
\* External callers.

\* startExecution by an external caller: the connectivity checkers start
\* Failover, an operator or a schedule starts the others.
StartExecution(wf, first) ==
  /\ starts[wf] > 0
  /\ starts' = [starts EXCEPT ![wf] = @ - 1]
  /\ ex' = Append(ex, NewExecution(wf, first, 0))
  /\ UNCHANGED <<azConfigurations, imagePipeline, build, clock, route, instances, calls>>

StartFailover == StartExecution(FAILOVER, "GetAZConfigurations")

StartFallback == StartExecution(FALLBACK, "GetRunningNatInstancesTask")

----------------------------------------------------------------------------
\* Failover state machine.

\* Mutant: no catch and a retry, the item stays where it is.
FailoverFailed_Retry(x, err) == x

\* The catch of the Map state: whatever error an item raises leads to the
\* Fail state Failover.
FailoverFailed(x, err) == FailState(x, "Failover", err)

\* Pass state GetAZConfigurations: its result replaces the input.
GetAZConfigurations(e) ==
  /\ At(e, FAILOVER, "GetAZConfigurations")
  /\ ex' = [ex EXCEPT ![e].ctx = [azConfigurations |-> azConfigurations],
                      ![e].pc = "MapOfAZConfigurations"]
  /\ UNCHANGED <<azConfigurations, imagePipeline, build, clock, route, instances, calls, starts>>

\* Map state MapOfAZConfigurations: one item per $.azConfigurations element.
MapOfAZConfigurations(e) ==
  /\ At(e, FAILOVER, "MapOfAZConfigurations")
  /\ ~Has(ex[e].items, "MapOfAZConfigurations")
  /\ ex' = [ex EXCEPT ![e].items =
              ("MapOfAZConfigurations" :>
                 MapItems(ex[e].ctx.azConfigurations, "ReplaceRouteTask")) @@ @]
  /\ UNCHANGED <<azConfigurations, imagePipeline, build, clock, route, instances, calls, starts>>

\* Mutant: every call addresses the route table of the first zone.
ReplaceRouteWithNatGatewayParameters_FirstTable(input) ==
  [DestinationCidrBlock |-> "0.0.0.0/0",
   NatGatewayId |-> input.natGatewayId,
   RouteTableId |-> azConfigurations[1].privateRouteTableId]

\* The parameters of the replaceRoute call of getReplaceRouteWithNatGatewayTask.
ReplaceRouteWithNatGatewayParameters(input) ==
  [DestinationCidrBlock |-> "0.0.0.0/0",
   NatGatewayId |-> input.natGatewayId,
   RouteTableId |-> input.privateRouteTableId]

\* Mutant: a failed call rolls back: the routes the execution replaced are
\* put on the zones' instances.
ReplaceRouteTask_RollsBack(e, i) ==
  /\ At(e, FAILOVER, "MapOfAZConfigurations")
  /\ ItemAt(e, "MapOfAZConfigurations", i, "ReplaceRouteTask")
  /\ LET p == ReplaceRouteWithNatGatewayParameters(
                ex[e].items["MapOfAZConfigurations"][i].ctx)
     IN \/ /\ route' = ReplaceRoute(route, p.RouteTableId, p.NatGatewayId)
           /\ ex' = [ex EXCEPT ![e].items["MapOfAZConfigurations"][i] =
                       [@ EXCEPT !.pc = "Done", !.ctx = EmptyDoc]]
           /\ calls' = calls \cup
                {Call("replaceRoute", e, <<p.RouteTableId, p.NatGatewayId>>, TRUE)}
        \/ \E err \in TaskErrors :
             /\ route' = [r \in DOMAIN route |->
                            IF Call("replaceRoute", e, <<r, route[r]>>, TRUE) \in calls
                            THEN InstanceId(r[2])
                            ELSE route[r]]
             /\ ex' = [ex EXCEPT ![e] = FailoverFailed(@, err)]
             /\ calls' = calls \cup
                  {Call("replaceRoute", e, <<p.RouteTableId, p.NatGatewayId>>, FALSE)}
  /\ UNCHANGED <<azConfigurations, imagePipeline, build, clock, instances, starts>>

\* Task ReplaceRouteTask of one item; a failure is caught at the Map boundary.
ReplaceRouteTask(e, i) ==
  /\ At(e, FAILOVER, "MapOfAZConfigurations")
  /\ ItemAt(e, "MapOfAZConfigurations", i, "ReplaceRouteTask")
  /\ LET p == ReplaceRouteWithNatGatewayParameters(
                ex[e].items["MapOfAZConfigurations"][i].ctx)
     IN \/ /\ route' = ReplaceRoute(route, p.RouteTableId, p.NatGatewayId)
           /\ ex' = [ex EXCEPT ![e].items["MapOfAZConfigurations"][i] =
                       [@ EXCEPT !.pc = "Done", !.ctx = EmptyDoc]]
           /\ calls' = calls \cup
                {Call("replaceRoute", e, <<p.RouteTableId, p.NatGatewayId>>, TRUE)}
        \/ \E err \in TaskErrors :
             /\ route' = route
             /\ ex' = [ex EXCEPT ![e] = FailoverFailed(@, err)]
             /\ calls' = calls \cup
                  {Call("replaceRoute", e, <<p.RouteTableId, p.NatGatewayId>>, FALSE)}
  /\ UNCHANGED <<azConfigurations, imagePipeline, build, clock, instances, starts>>

\* The Map state ends when every item has; it is the last state.
MapOfAZConfigurationsEnd(e) ==
  /\ At(e, FAILOVER, "MapOfAZConfigurations")
  /\ Has(ex[e].items, "MapOfAZConfigurations")
  /\ AllDone(ex[e].items["MapOfAZConfigurations"])
  /\ ex' = [ex EXCEPT ![e] =
              Succeed(@, MapOutput(@.items["MapOfAZConfigurations"]))]
  /\ UNCHANGED <<azConfigurations, imagePipeline, build, clock, route, instances, calls, starts>>

----------------------------------------------------------------------------
\* Fallback state machine.

\* The catch of the listing task and of the Map state: whatever error is
\* raised leads to the Fail state Fallback.
FallbackFailed(x, err) == FailState(x, "Fallback", err)

\* Task GetRunningNatInstancesTask: the listing goes to $.NatInstances.
GetRunningNatInstancesTask(e) ==
  /\ At(e, FALLBACK, "GetRunningNatInstancesTask")
  /\ \/ /\ ex' = [ex EXCEPT ![e].ctx = ("NatInstances" :> DescribeInstances) @@ @,
                            ![e].pc = "Instances"]
        /\ calls' = calls \cup {Call("describeInstances", e, DescribeInstances, TRUE)}
     \/ \E err \in TaskErrors :
          /\ ex' = [ex EXCEPT ![e] = FallbackFailed(@, err)]
          /\ calls' = calls \cup {Call("describeInstances", e, EmptyDoc, FALSE)}
  /\ UNCHANGED <<azConfigurations, imagePipeline, build, clock, route, instances, starts>>

\* Map state Instances: one item per reservation of the listing.
Instances(e) ==
  /\ At(e, FALLBACK, "Instances")
  /\ ~Has(ex[e].items, "Instances")
  /\ ex' = [ex EXCEPT ![e].items =
              ("Instances" :>
                 MapItems(ex[e].ctx.NatInstances.Reservations,
                          "RawAZConfigurations")) @@ @]
  /\ UNCHANGED <<azConfigurations, imagePipeline, build, clock, route, instances, calls, starts>>

\* The parameters of Pass state RawAZConfigurations; the array given as
\* sfn.Result.fromArray is rendered under the key value.
RawAZConfigurationsParameters(input) ==
  [InstanceId |-> input.Instances[1].InstanceId,
   PublicSubnetId |-> input.Instances[1].SubnetId,
   AzConfigurations |-> [value |-> azConfigurations]]

RawAZConfigurations(e, i) ==
  /\ At(e, FALLBACK, "Instances")
  /\ ItemAt(e, "Instances", i, "RawAZConfigurations")
  /\ ex' = [ex EXCEPT ![e].items["Instances"][i] =
              [@ EXCEPT !.pc = "GetDesiredRouteTableId",
                        !.ctx = RawAZConfigurationsParameters(@)]]
  /\ UNCHANGED <<azConfigurations, imagePipeline, build, clock, route, instances, calls, starts>>

\* Mutant: the zone configurations are not filtered by the subnet.
RouteTableFilter_NoFilter(input) == input.AzConfigurations.value

\* $.AzConfigurations.value[?(@.publicSubnetId == $.PublicSubnetId)]
RouteTableFilter(input) ==
  SelectSeq(input.AzConfigurations.value,
            LAMBDA c : c.publicSubnetId = input.PublicSubnetId)

\* The parameters of Pass state GetDesiredRouteTableId.
GetDesiredRouteTableIdParameters(input) ==
  [InstanceId |-> input.InstanceId,
   RouteTable |-> RouteTableFilter(input)]

GetDesiredRouteTableId(e, i) ==
  /\ At(e, FALLBACK, "Instances")
  /\ ItemAt(e, "Instances", i, "GetDesiredRouteTableId")
  /\ ex' = [ex EXCEPT ![e].items["Instances"][i] =
              [@ EXCEPT !.pc = "ReplaceInstanceRouteTask",
                        !.ctx = GetDesiredRouteTableIdParameters(@)]]
  /\ UNCHANGED <<azConfigurations, imagePipeline, build, clock, route, instances, calls, starts>>

\* The parameters of the replaceRoute call of getReplaceRouteWithNatInstanceTask.
ReplaceRouteWithNatInstanceParameters(input) ==
  [DestinationCidrBlock |-> "0.0.0.0/0",
   InstanceId |-> input.InstanceId,
   RouteTableId |-> input.RouteTable[1].privateRouteTableId]

\* Task ReplaceInstanceRouteTask of one item. When the filter selected no
\* zone configuration, $.RouteTable[0] does not resolve: the task fails
\* before any call is made, with the error States.Runtime, which no catch
\* matches: the execution ends Failed where it stands.
ReplaceInstanceRouteTask(e, i) ==
  /\ At(e, FALLBACK, "Instances")
  /\ ItemAt(e, "Instances", i, "ReplaceInstanceRouteTask")
  /\ LET input == ex[e].items["Instances"][i].ctx
     IN IF Len(input.RouteTable) = 0
        THEN /\ ex' = [ex EXCEPT ![e] =
                         Ended(@, "Failed", @.pc, "States.Runtime", EmptyDoc)]
             /\ UNCHANGED <<route, calls>>
        ELSE LET p == ReplaceRouteWithNatInstanceParameters(input)
             IN \/ /\ route' = ReplaceRoute(route, p.RouteTableId, p.InstanceId)
                   /\ ex' = [ex EXCEPT ![e].items["Instances"][i] =
                               [@ EXCEPT !.pc = "Done", !.ctx = EmptyDoc]]
                   /\ calls' = calls \cup
                        {Call("replaceRoute", e,
                              <<p.RouteTableId, p.InstanceId>>, TRUE)}
                \/ \E err \in TaskErrors :
                     /\ route' = route
                     /\ ex' = [ex EXCEPT ![e] = FallbackFailed(@, err)]
                     /\ calls' = calls \cup
                          {Call("replaceRoute", e,
                                <<p.RouteTableId, p.InstanceId>>, FALSE)}
  /\ UNCHANGED <<azConfigurations, imagePipeline, build, clock, instances, starts>>

\* The Map state ends when every item has; it is the last state.
InstancesEnd(e) ==
  /\ At(e, FALLBACK, "Instances")
  /\ Has(ex[e].items, "Instances")
  /\ AllDone(ex[e].items["Instances"])
  /\ ex' = [ex EXCEPT ![e] = Succeed(@, MapOutput(@.items["Instances"]))]
  /\ UNCHANGED <<azConfigurations, imagePipeline, build, clock, route, instances, calls, starts>>

----------------------------------------------------------------------------
\* ReplaceInstance state machine.

StartReplacement == StartExecution(REPLACE, "GetStateMachineRunningTask")

\* Mutant: the catch swallows the error and the execution goes on.
ReplaceInstanceFailed_Swallowed(x, err) == x

\* The catch of every task and of the Parallel state: whatever error is
\* raised leads to the Fail state ReplaceInstance.
ReplaceInstanceFailed(x, err) == FailState(x, "ReplaceInstance", err)

\* Mutant: the listing is empty.
ListExecutions_None(wf) == [Executions |-> << >>]

\* sfn:listExecutions with StatusFilter RUNNING: the running executions of
\* the state machine, the calling one among them.
ListExecutions(wf) ==
  [Executions |->
     SortedSeq({x \in 1..Len(ex) : ex[x].wf = wf /\ ex[x].status = "Running"})]

\* Task GetStateMachineRunningTask: no result path, the result is the output.
GetStateMachineRunningTask(e) ==
  /\ At(e, REPLACE, "GetStateMachineRunningTask")
  /\ \/ /\ ex' = [ex EXCEPT ![e].ctx = ListExecutions(REPLACE),
                            ![e].pc = "AlreadyRunningStateMachine?"]
        /\ calls' = calls \cup
             {Call("listExecutions", e, ListExecutions(REPLACE).Executions, TRUE)}
     \/ \E err \in TaskErrors :
          /\ ex' = [ex EXCEPT ![e] = ReplaceInstanceFailed(@, err)]
          /\ calls' = calls \cup {Call("listExecutions", e, <<>>, FALSE)}
  /\ UNCHANGED <<azConfigurations, imagePipeline, build, clock, route, instances, starts>>

\* Mutant: isPresent('$.Executions[0]').
AlreadyRunningStateMachineChoice_First(input) ==
  IF Has(input, "Executions") /\ Len(input.Executions) >= 1
  THEN "AlreadyRunning"
  ELSE "TriggerFailover"

\* Mutant: isPresent('$.Executions[2]').
AlreadyRunningStateMachineChoice_Third(input) ==
  IF Has(input, "Executions") /\ Len(input.Executions) >= 3
  THEN "AlreadyRunning"
  ELSE "TriggerFailover"

\* Choice AlreadyRunningStateMachine?: isPresent('$.Executions[1]').
AlreadyRunningStateMachineChoice(input) ==
  IF Has(input, "Executions") /\ Len(input.Executions) >= 2
  THEN "AlreadyRunning"
  ELSE "TriggerFailover"

AlreadyRunningStateMachine(e) ==
  /\ At(e, REPLACE, "AlreadyRunningStateMachine?")
  /\ ex' = [ex EXCEPT ![e] =
              IF AlreadyRunningStateMachineChoice(@.ctx) = "AlreadyRunning"
              THEN FailState(@, "AlreadyRunning", "AlreadyRunning")
              ELSE [@ EXCEPT !.pc = "TriggerFailover"]]
  /\ UNCHANGED <<azConfigurations, imagePipeline, build, clock, route, instances, calls, starts>>

\* Task TriggerFailover, first half: startExecution of the Failover state
\* machine (integration pattern RUN_JOB).
TriggerFailover(e) ==
  /\ At(e, REPLACE, "TriggerFailover")
  /\ ex[e].child = 0
  /\ \/ /\ ex' = Append([ex EXCEPT ![e].child = Len(ex) + 1],
                        NewExecution(FAILOVER, "GetAZConfigurations", e))
        /\ calls' = calls \cup {Call("startExecution", e, FAILOVER, TRUE)}
     \/ \E err \in TaskErrors :
          /\ ex' = [ex EXCEPT ![e] = ReplaceInstanceFailed(@, err)]
          /\ calls' = calls \cup {Call("startExecution", e, FAILOVER, FALSE)}
  /\ UNCHANGED <<azConfigurations, imagePipeline, build, clock, route, instances, starts>>

\* Mutant: the task does not wait for the nested execution.
RunJobDone_RequestResponse(x) == TRUE

\* Integration pattern RUN_JOB: the task is over when the nested execution
\* x has ended.
RunJobDone(x) == x.status \in {"Succeeded", "Failed"}

\* Mutant: the outcome of the nested execution is not looked at.
RunJobFailed_Never(x) == FALSE

\* Integration pattern RUN_JOB: the task fails when the nested execution x
\* has failed.
RunJobFailed(x) == x.status = "Failed"

\* Task TriggerFailover, second half: the task ends when the nested
\* execution has; a failed one fails the task, which the catch routes to
\* the Fail state. The next state is GetNatInstancesTask.
TriggerFailoverJoin(e) ==
  /\ At(e, REPLACE, "TriggerFailover")
  /\ ex[e].child # 0
  /\ RunJobDone(ex[ex[e].child])
  /\ ex' = [ex EXCEPT ![e] =
              IF RunJobFailed(ex[ex[e].child])
              THEN ReplaceInstanceFailed(@, "States.TaskFailed")
              ELSE [@ EXCEPT !.pc = "GetNatInstancesTask",
                             !.ctx = [Output |-> ex[ex[e].child].ctx,
                                      Status |-> "SUCCEEDED"]]]
  /\ UNCHANGED <<azConfigurations, imagePipeline, build, clock, route, instances, calls, starts>>

\* Mutant: the listing is put in the place of the input.
GetNatInstancesTask_DropsInput(e) ==
  /\ At(e, REPLACE, "GetNatInstancesTask")
  /\ \/ /\ ex' = [ex EXCEPT ![e].ctx = [NatInstances |-> DescribeInstances],
                            ![e].pc = "InstancesReplacement"]
        /\ calls' = calls \cup {Call("describeInstances", e, DescribeInstances, TRUE)}
     \/ \E err \in TaskErrors :
          /\ ex' = [ex EXCEPT ![e] = ReplaceInstanceFailed(@, err)]
          /\ calls' = calls \cup {Call("describeInstances", e, EmptyDoc, FALSE)}
  /\ UNCHANGED <<azConfigurations, imagePipeline, build, clock, route, instances,
                 starts>>

\* Task GetNatInstancesTask: the listing goes to $.NatInstances.
GetNatInstancesTask(e) ==
  /\ At(e, REPLACE, "GetNatInstancesTask")
  /\ \/ /\ ex' = [ex EXCEPT ![e].ctx = ("NatInstances" :> DescribeInstances) @@ @,
                            ![e].pc = "InstancesReplacement"]
        /\ calls' = calls \cup {Call("describeInstances", e, DescribeInstances, TRUE)}
     \/ \E err \in TaskErrors :
          /\ ex' = [ex EXCEPT ![e] = ReplaceInstanceFailed(@, err)]
          /\ calls' = calls \cup {Call("describeInstances", e, EmptyDoc, FALSE)}
  /\ UNCHANGED <<azConfigurations, imagePipeline, build, clock, route, instances, starts>>

\* Parallel state InstancesReplacement: both branches get its input.
InstancesReplacement(e) ==
  /\ At(e, REPLACE, "InstancesReplacement")
  /\ ex[e].par = EmptyDoc
  /\ ex' = [ex EXCEPT ![e].par =
              [terminate |-> [pc |-> "AnyInstance?", ctx |-> ex[e].ctx],
               create |-> [pc |-> "GetSubnets", ctx |-> ex[e].ctx]]]
  /\ UNCHANGED <<azConfigurations, imagePipeline, build, clock, route, instances, calls, starts>>

\* Branch b of the Parallel state of execution e stands at state pc.
BranchAt(e, b, pc) ==
  /\ At(e, REPLACE, "InstancesReplacement")
  /\ Has(ex[e].par, b)
  /\ ex[e].par[b].pc = pc

\* Mutant: the Choice has no default, every input goes to the Map state.
AnyInstanceChoice_Always(input) == "DisableInstancesTerminationProtection"

\* Choice AnyInstance?: isPresent('$.NatInstances.Reservations[0]').
AnyInstanceChoice(input) ==
  IF Len(input.NatInstances.Reservations) >= 1
  THEN "DisableInstancesTerminationProtection"
  ELSE "NoOp"

AnyInstance(e) ==
  /\ BranchAt(e, "terminate", "AnyInstance?")
  /\ ex' = [ex EXCEPT ![e].par.terminate.pc =
              AnyInstanceChoice(ex[e].par.terminate.ctx)]
  /\ UNCHANGED <<azConfigurations, imagePipeline, build, clock, route, instances, calls, starts>>

\* Pass state NoOp ends the terminate branch.
NoOp(e) ==
  /\ BranchAt(e, "terminate", "NoOp")
  /\ ex' = [ex EXCEPT ![e].par.terminate.pc = "Done"]
  /\ UNCHANGED <<azConfigurations, imagePipeline, build, clock, route, instances, calls, starts>>

\* Mutant: the Map state reads its items from the instances running when
\* it starts, not from the listing in its input.
DisableInstancesTerminationProtection_Relists(e) ==
  /\ BranchAt(e, "terminate", "DisableInstancesTerminationProtection")
  /\ ~Has(ex[e].items, "DisableInstancesTerminationProtection")
  /\ ex' = [ex EXCEPT ![e].items =
              ("DisableInstancesTerminationProtection" :>
                 MapItems(DescribeInstances.Reservations,
                          "DisableTerminationProtectionTask")) @@ @]
  /\ UNCHANGED <<azConfigurations, imagePipeline, build, clock, route, instances,
                 calls, starts>>

\* Map state DisableInstancesTerminationProtection: one item per reservation.
DisableInstancesTerminationProtection(e) ==
  /\ BranchAt(e, "terminate", "DisableInstancesTerminationProtection")
  /\ ~Has(ex[e].items, "DisableInstancesTerminationProtection")
  /\ ex' = [ex EXCEPT ![e].items =
              ("DisableInstancesTerminationProtection" :>
                 MapItems(ex[e].par.terminate.ctx.NatInstances.Reservations,
                          "DisableTerminationProtectionTask")) @@ @]
  /\ UNCHANGED <<azConfigurations, imagePipeline, build, clock, route, instances, calls, starts>>

\* The instance both tasks of the terminate branch address:
\* $.Instances[0].InstanceId of the reservation.
ReservationInstanceId(input) == input.Instances[1].InstanceId

\* Task DisableTerminationProtectionTask: modifyInstanceAttribute with
\* DisableApiTermination false; the result goes to
\* $.DisableTerminationProtection.
DisableTerminationProtectionTask(e, i) ==
  /\ BranchAt(e, "terminate", "DisableInstancesTerminationProtection")
  /\ ItemAt(e, "DisableInstancesTerminationProtection", i,
            "DisableTerminationProtectionTask")
  /\ LET id == ReservationInstanceId(
                 ex[e].items["DisableInstancesTerminationProtection"][i].ctx)
     IN \/ /\ instances' = [instances EXCEPT ![id].disableApiTermination = FALSE]
           /\ ex' = [ex EXCEPT
                ![e].items["DisableInstancesTerminationProtection"][i] =
                  [@ EXCEPT !.pc = "TerminateOldInstanceTask",
                            !.ctx = ("DisableTerminationProtection" :> EmptyDoc) @@ @]]
           /\ calls' = calls \cup
                {Call("modifyInstanceAttribute.DisableApiTermination", e, id, TRUE)}
        \/ \E err \in TaskErrors :
             /\ instances' = instances
             /\ ex' = [ex EXCEPT ![e] = ReplaceInstanceFailed(@, err)]
             /\ calls' = calls \cup
                  {Call("modifyInstanceAttribute.DisableApiTermination", e, id, FALSE)}
  /\ UNCHANGED <<azConfigurations, imagePipeline, build, clock, route, starts>>

\* Mutant: the terminate call addresses the last instance of the
\* reservation.
TerminateOldInstanceTask_LastOfReservation(e, i) ==
  /\ BranchAt(e, "terminate", "DisableInstancesTerminationProtection")
  /\ ItemAt(e, "DisableInstancesTerminationProtection", i,
            "TerminateOldInstanceTask")
  /\ LET input == ex[e].items["DisableInstancesTerminationProtection"][i].ctx
         id == input.Instances[Len(input.Instances)].InstanceId
     IN \/ /\ ~instances[id].disableApiTermination
           /\ instances' = [instances EXCEPT ![id].state = "terminated"]
           /\ ex' = [ex EXCEPT
                ![e].items["DisableInstancesTerminationProtection"][i] =
                  [@ EXCEPT !.pc = "Done", !.ctx = EmptyDoc]]
           /\ calls' = calls \cup {Call("terminateInstances", e, id, TRUE)}
        \/ \E err \in TaskErrors :
             /\ instances' = instances
             /\ ex' = [ex EXCEPT ![e] = ReplaceInstanceFailed(@, err)]
             /\ calls' = calls \cup {Call("terminateInstances", e, id, FALSE)}
  /\ UNCHANGED <<azConfigurations, imagePipeline, build, clock, route, starts>>

\* Task TerminateOldInstanceTask: terminateInstances, which the provider
\* refuses for an instance whose termination protection is on.
TerminateOldInstanceTask(e, i) ==
  /\ BranchAt(e, "terminate", "DisableInstancesTerminationProtection")
  /\ ItemAt(e, "DisableInstancesTerminationProtection", i,
            "TerminateOldInstanceTask")
  /\ LET id == ReservationInstanceId(
                 ex[e].items["DisableInstancesTerminationProtection"][i].ctx)
     IN \/ /\ ~instances[id].disableApiTermination
           /\ instances' = [instances EXCEPT ![id].state = "terminated"]
           /\ ex' = [ex EXCEPT
                ![e].items["DisableInstancesTerminationProtection"][i] =
                  [@ EXCEPT !.pc = "Done", !.ctx = EmptyDoc]]
           /\ calls' = calls \cup {Call("terminateInstances", e, id, TRUE)}
        \/ \E err \in TaskErrors :
             /\ instances' = instances
             /\ ex' = [ex EXCEPT ![e] = ReplaceInstanceFailed(@, err)]
             /\ calls' = calls \cup {Call("terminateInstances", e, id, FALSE)}
  /\ UNCHANGED <<azConfigurations, imagePipeline, build, clock, route, starts>>

\* The Map state ends when every item has; it ends the terminate branch.
DisableInstancesTerminationProtectionEnd(e) ==
  /\ BranchAt(e, "terminate", "DisableInstancesTerminationProtection")
  /\ Has(ex[e].items, "DisableInstancesTerminationProtection")
  /\ AllDone(ex[e].items["DisableInstancesTerminationProtection"])
  /\ ex' = [ex EXCEPT ![e].par.terminate =
              [pc |-> "Done",
               ctx |-> MapOutput(
                         ex[e].items["DisableInstancesTerminationProtection"])]]
  /\ UNCHANGED <<azConfigurations, imagePipeline, build, clock, route, instances, calls, starts>>

\* Pass state GetSubnets: its result replaces the input.
GetSubnets(e) ==
  /\ BranchAt(e, "create", "GetSubnets")
  /\ ex' = [ex EXCEPT ![e].par.create =
              [pc |-> "CreateNewInstances",
               ctx |-> [azConfigurations |-> azConfigurations]]]
  /\ UNCHANGED <<azConfigurations, imagePipeline, build, clock, route, instances, calls, starts>>

\* Map state CreateNewInstances: one item per $.azConfigurations element.
CreateNewInstances(e) ==
  /\ BranchAt(e, "create", "CreateNewInstances")
  /\ ~Has(ex[e].items, "CreateNewInstances")
  /\ ex' = [ex EXCEPT ![e].items =
              ("CreateNewInstances" :>
                 MapItems(ex[e].par.create.ctx.azConfigurations,
                          "GetNatInstanceImageTask")) @@ @]
  /\ UNCHANGED <<azConfigurations, imagePipeline, build, clock, route, instances, calls, starts>>

CreateItemAt(e, i, pc) ==
  /\ BranchAt(e, "create", "CreateNewInstances")
  /\ ItemAt(e, "CreateNewInstances", i, pc)

\* The payload of the GetLatestNATImage function: the latest image id.
LatestNatImage == "ami-latest"

\* Task GetNatInstanceImageTask: the selected result goes to $.Image.
GetNatInstanceImageTask(e, i) ==
  /\ CreateItemAt(e, i, "GetNatInstanceImageTask")
  /\ \/ ex' = [ex EXCEPT ![e].items["CreateNewInstances"][i] =
                 [@ EXCEPT !.pc = "RunNatInstanceTask",
                           !.ctx = ("Image" :> [ImageId |-> LatestNatImage]) @@ @]]
     \/ \E err \in TaskErrors :
          ex' = [ex EXCEPT ![e] = ReplaceInstanceFailed(@, err)]
  /\ UNCHANGED <<azConfigurations, imagePipeline, build, clock, route, instances, calls, starts>>

\* Mutant: the StateMachine tag is the fixed name of Replacement.
RunInstanceParameters_FixedTag(input, stateMachineName) ==
  [ImageId |-> input.Image.ImageId,
   MinCount |-> 1,
   MaxCount |-> 1,
   DisableApiTermination |-> TRUE,
   TagName |-> NAT_INSTANCES_NAME_TAG,
   TagStateMachine |-> "NATInstanceReplaceInstance",
   HttpEndpoint |-> "disabled",
   SubnetId |-> input.publicSubnetId]

\* The parameters of the runInstances call of getRunInstanceTask; the
\* StateMachine tag is the name of the running state machine.
RunInstanceParameters(input, stateMachineName) ==
  [ImageId |-> input.Image.ImageId,
   MinCount |-> 1,
   MaxCount |-> 1,
   DisableApiTermination |-> TRUE,
   TagName |-> NAT_INSTANCES_NAME_TAG,
   TagStateMachine |-> stateMachineName,
   HttpEndpoint |-> "disabled",
   SubnetId |-> input.publicSubnetId]

\* ec2:runInstances: the instance the provider launches for the parameters,
\* in a reservation of its own.
LaunchedInstance(p, id, e) ==
  [state |-> "running", subnet |-> p.SubnetId, reservation |-> id[2],
   tagName |-> p.TagName, tagStateMachine |-> p.TagStateMachine,
   disableApiTermination |-> p.DisableApiTermination,
   sourceDestCheck |-> TRUE, launchedBy |-> e]

\* Task RunNatInstanceTask: no result path, so the selected result
\* {InstanceId} replaces the item's input.
RunNatInstanceTask(e, i) ==
  /\ CreateItemAt(e, i, "RunNatInstanceTask")
  /\ LET p == RunInstanceParameters(ex[e].items["CreateNewInstances"][i].ctx,
                                    ex[e].wf)
         id == NewInstanceId(e, i)
     IN \/ /\ instances' = (id :> LaunchedInstance(p, id, e)) @@ instances
           /\ ex' = [ex EXCEPT ![e].items["CreateNewInstances"][i] =
                       [@ EXCEPT !.pc = "WaitForRun",
                                 !.ctx = [InstanceId |-> id]]]
           /\ calls' = calls \cup {Call("runInstances", e, p.SubnetId, TRUE)}
        \/ \E err \in TaskErrors :
             /\ instances' = instances
             /\ ex' = [ex EXCEPT ![e] = ReplaceInstanceFailed(@, err)]
             /\ calls' = calls \cup {Call("runInstances", e, p.SubnetId, FALSE)}
  /\ UNCHANGED <<azConfigurations, imagePipeline, build, clock, route, starts>>

\* Wait state WaitForRun: 10 seconds, then the status poll.
WaitForRun(e, i) ==
  /\ CreateItemAt(e, i, "WaitForRun")
  /\ ex' = [ex EXCEPT ![e].items["CreateNewInstances"][i].pc =
              "GetInstanceStateTask"]
  /\ UNCHANGED <<azConfigurations, imagePipeline, build, clock, route, instances, calls, starts>>

StatusValues == {"ok", "initializing"}

\* What ec2:describeInstanceStatus can answer for one instance id: no
\* status entry yet, or one entry with the two checks.
InstanceStatusResponses ==
  {[InstanceStatuses |-> << >>]} \cup
  {[InstanceStatuses |->
      <<[InstanceStatus |-> [Status |-> a], SystemStatus |-> [Status |-> b]]>>] :
     a \in StatusValues, b \in StatusValues}

\* The parameters of the describeInstanceStatus call of getInstanceStateTask.
GetInstanceStateParameters(input) == [InstanceIds |-> <<input.InstanceId>>]

\* Task GetInstanceStateTask: the response goes to $.Instance.
GetInstanceStateTask(e, i) ==
  /\ CreateItemAt(e, i, "GetInstanceStateTask")
  /\ \/ \E r \in InstanceStatusResponses :
          ex' = [ex EXCEPT ![e].items["CreateNewInstances"][i] =
                   [@ EXCEPT !.pc = "IsInstanceReady?",
                             !.ctx = ("Instance" :> r) @@ @]]
     \/ \E err \in TaskErrors :
          ex' = [ex EXCEPT ![e] = ReplaceInstanceFailed(@, err)]
  /\ UNCHANGED <<azConfigurations, imagePipeline, build, clock, route, instances, calls, starts>>

\* Mutant: a poll without two 'ok' is followed by the next poll at once.
IsInstanceReadyChoice_PollAtOnce(input) ==
  IF Len(input.Instance.InstanceStatuses) = 0
  THEN "GetInstanceStateTask"
  ELSE IF \/ input.Instance.InstanceStatuses[1].InstanceStatus.Status # "ok"
          \/ input.Instance.InstanceStatuses[1].SystemStatus.Status # "ok"
       THEN "GetInstanceStateTask"
       ELSE "DisableSourceDestCheckTask"

\* Mutant: only InstanceStatus is looked at.
IsInstanceReadyChoice_InstanceStatusOnly(input) ==
  IF Len(input.Instance.InstanceStatuses) = 0
  THEN "WaitForRun"
  ELSE IF input.Instance.InstanceStatuses[1].InstanceStatus.Status # "ok"
       THEN "WaitForRun"
       ELSE "DisableSourceDestCheckTask"

\* Choice IsInstanceReady?: back to the wait when no status entry is
\* present, or when either check is not 'ok'; otherwise go on.
IsInstanceReadyChoice(input) ==
  IF Len(input.Instance.InstanceStatuses) = 0
  THEN "WaitForRun"
  ELSE IF \/ input.Instance.InstanceStatuses[1].InstanceStatus.Status # "ok"
          \/ input.Instance.InstanceStatuses[1].SystemStatus.Status # "ok"
       THEN "WaitForRun"
       ELSE "DisableSourceDestCheckTask"

\* On the way back to WaitForRun the item keeps $.InstanceId only: the
\* $.Instance of this round is overwritten by the next poll (resultPath
\* '$.Instance') before any state reads it.
IsInstanceReady(e, i) ==
  /\ CreateItemAt(e, i, "IsInstanceReady?")
  /\ LET input == ex[e].items["CreateNewInstances"][i].ctx
         next == IsInstanceReadyChoice(input)
     IN ex' = [ex EXCEPT ![e].items["CreateNewInstances"][i] =
                 [@ EXCEPT !.pc = next,
                           !.ctx = IF next = "WaitForRun"
                                   THEN [InstanceId |-> input.InstanceId]
                                   ELSE input]]
  /\ UNCHANGED <<azConfigurations, imagePipeline, build, clock, route, instances, calls, starts>>

\* Mutant: the last task of an item also puts the zone's route on the new
\* instance.
DisableSourceDestCheckTask_RoutesToInstance(e, i) ==
  /\ CreateItemAt(e, i, "DisableSourceDestCheckTask")
  /\ LET id == ex[e].items["CreateNewInstances"][i].ctx.InstanceId
     IN /\ instances' = [instances EXCEPT ![id].sourceDestCheck = FALSE]
        /\ route' = ReplaceRoute(route, azConfigurations[i].privateRouteTableId, id)
        /\ ex' = [ex EXCEPT ![e].items["CreateNewInstances"][i] =
                    [@ EXCEPT !.pc = "Done", !.ctx = EmptyDoc]]
        /\ calls' = calls \cup
             {Call("modifyInstanceAttribute.SourceDestCheck", e, id, TRUE)}
  /\ UNCHANGED <<azConfigurations, imagePipeline, build, clock, starts>>

\* Task DisableSourceDestCheckTask: modifyInstanceAttribute with
\* SourceDestCheck false on $.InstanceId; the last state of the item, and
\* with no result path its result is the item's output.
DisableSourceDestCheckTask(e, i) ==
  /\ CreateItemAt(e, i, "DisableSourceDestCheckTask")
  /\ LET id == ex[e].items["CreateNewInstances"][i].ctx.InstanceId
     IN \/ /\ instances' = [instances EXCEPT ![id].sourceDestCheck = FALSE]
           /\ ex' = [ex EXCEPT ![e].items["CreateNewInstances"][i] =
                       [@ EXCEPT !.pc = "Done", !.ctx = EmptyDoc]]
           /\ calls' = calls \cup
                {Call("modifyInstanceAttribute.SourceDestCheck", e, id, TRUE)}
        \/ \E err \in TaskErrors :
             /\ instances' = instances
             /\ ex' = [ex EXCEPT ![e] = ReplaceInstanceFailed(@, err)]
             /\ calls' = calls \cup
                  {Call("modifyInstanceAttribute.SourceDestCheck", e, id, FALSE)}
  /\ UNCHANGED <<azConfigurations, imagePipeline, build, clock, route, starts>>

\* The Map state ends when every item has; it ends the create branch.
CreateNewInstancesEnd(e) ==
  /\ BranchAt(e, "create", "CreateNewInstances")
  /\ Has(ex[e].items, "CreateNewInstances")
  /\ AllDone(ex[e].items["CreateNewInstances"])
  /\ ex' = [ex EXCEPT ![e].par.create =
              [pc |-> "Done",
               ctx |-> MapOutput(ex[e].items["CreateNewInstances"])]]
  /\ UNCHANGED <<azConfigurations, imagePipeline, build, clock, route, instances, calls, starts>>

\* The Parallel state ends when both branches have; it is the last state,
\* and its output is the outputs of the two branches.
InstancesReplacementEnd(e) ==
  /\ BranchAt(e, "terminate", "Done")
  /\ BranchAt(e, "create", "Done")
  /\ ex' = [ex EXCEPT ![e] =
              Succeed(@, <<@.par.terminate.ctx, @.par.create.ctx>>)]
  /\ UNCHANGED <<azConfigurations, imagePipeline, build, clock, route, instances, calls, starts>>

----------------------------------------------------------------------------
\* Maintenance state machine.

StartMaintenance == StartExecution(MAINTENANCE, "GetInitialImagePipelineStatusTask")

\* Mutant: no catch and a retry, the execution stays where it is.
MaintenanceFailed_Retry(x, err) == x

\* The catch of every task: whatever error is raised leads to the Fail
\* state Generic.
MaintenanceFailed(x, err) == FailState(x, "Generic", err)

\* The statuses an image build goes through, one standing for every status
\* of a build in progress.
PipelineStatuses == {"AVAILABLE", "FAILED", "BUILDING"}

\* imagebuilder:listImageBuildVersions of the image version.
ListImageBuildVersions(status) ==
  [ImageSummaryList |-> <<[State |-> [Status |-> status]]>>]

\* The result selector of getCheckImagesPipelineStatus:
\* $.ImageSummaryList[0].State.Status.
PipelineStatusSelector(result) ==
  [PipelineStatus |-> result.ImageSummaryList[1].State.Status]

\* Task GetInitialImagePipelineStatusTask: no result path, the selected
\* result is the output.
GetInitialImagePipelineStatusTask(e) ==
  /\ At(e, MAINTENANCE, "GetInitialImagePipelineStatusTask")
  /\ \/ ex' = [ex EXCEPT
                 ![e].ctx = PipelineStatusSelector(ListImageBuildVersions(imagePipeline)),
                 ![e].pc = "AlreadyRunning?"]
     \/ \E err \in TaskErrors :
          ex' = [ex EXCEPT ![e] = MaintenanceFailed(@, err)]
  /\ UNCHANGED <<azConfigurations, imagePipeline, build, clock, route, instances, calls, starts>>

\* Mutant: the pipeline status is not looked at.
AlreadyRunningChoice_Always(input) == "TriggerImagePipelineTask"

\* Choice AlreadyRunning?: a status that is neither AVAILABLE nor FAILED
\* leads to the Fail state AlreadyRunningPipeline.
AlreadyRunningChoice(input) ==
  IF input.PipelineStatus # "AVAILABLE" /\ input.PipelineStatus # "FAILED"
  THEN "AlreadyRunningPipeline"
  ELSE "TriggerImagePipelineTask"

AlreadyRunning(e) ==
  /\ At(e, MAINTENANCE, "AlreadyRunning?")
  /\ ex' = [ex EXCEPT ![e] =
              IF AlreadyRunningChoice(@.ctx) = "AlreadyRunningPipeline"
              THEN FailState(@, "AlreadyRunningPipeline", "AlreadyRunningPipeline")
              ELSE [@ EXCEPT !.pc = "TriggerImagePipelineTask"]]
  /\ UNCHANGED <<azConfigurations, imagePipeline, build, clock, route, instances, calls, starts>>

\* imagebuilder:startImagePipelineExecution: a new build is in progress.
StartImagePipelineExecution(status) == "BUILDING"

\* Task TriggerImagePipelineTask: no result path, the result is the output.
TriggerImagePipelineTask(e) ==
  /\ At(e, MAINTENANCE, "TriggerImagePipelineTask")
  /\ \/ /\ imagePipeline' = StartImagePipelineExecution(imagePipeline)
        /\ build' = StartImagePipelineExecution(build)
        /\ ex' = [ex EXCEPT ![e].ctx = [ImageBuildVersionArn |-> "image"],
                            ![e].pc = "WaitForPipelineToRun"]
        /\ calls' = calls \cup
             {Call("startImagePipelineExecution", e, "ImagePipeline", TRUE)}
     \/ \E err \in TaskErrors :
          /\ imagePipeline' = imagePipeline
          /\ build' = build
          /\ ex' = [ex EXCEPT ![e] = MaintenanceFailed(@, err)]
          /\ calls' = calls \cup
               {Call("startImagePipelineExecution", e, "ImagePipeline", FALSE)}
  /\ UNCHANGED <<azConfigurations, clock, route, instances, starts>>

\* Wait state WaitForPipelineToRun: 10 minutes, then the status poll.
WaitForPipelineToRun(e) ==
  /\ At(e, MAINTENANCE, "WaitForPipelineToRun")
  /\ ex' = [ex EXCEPT ![e].pc = "GetImagePipelineStatusTask"]
  /\ UNCHANGED <<azConfigurations, imagePipeline, build, clock, route, instances, calls, starts>>

\* Task GetImagePipelineStatusTask: no result path, the selected result is
\* the output.
GetImagePipelineStatusTask(e) ==
  /\ At(e, MAINTENANCE, "GetImagePipelineStatusTask")
  /\ \/ ex' = [ex EXCEPT
                 ![e].ctx = PipelineStatusSelector(ListImageBuildVersions(imagePipeline)),
                 ![e].pc = "Finished?"]
     \/ \E err \in TaskErrors :
          ex' = [ex EXCEPT ![e] = MaintenanceFailed(@, err)]
  /\ UNCHANGED <<azConfigurations, imagePipeline, build, clock, route, instances, calls, starts>>

\* Mutant: any status but FAILED counts as finished.
FinishedChoice_NoWait(input) ==
  IF input.PipelineStatus = "FAILED" THEN "ImagePipeline"
  ELSE "TriggerReplaceInstances"

\* Mutant: a failed build is taken for a finished one.
FinishedChoice_FailedGoesOn(input) ==
  IF input.PipelineStatus \notin {"AVAILABLE", "FAILED"}
  THEN "WaitToFetchStatusAgain"
  ELSE "TriggerReplaceInstances"

\* Choice Finished?: FAILED leads to the Fail state ImagePipeline, any
\* other status than AVAILABLE to the wait, AVAILABLE to the replacement.
FinishedChoice(input) ==
  IF input.PipelineStatus = "FAILED" THEN "ImagePipeline"
  ELSE IF input.PipelineStatus # "AVAILABLE" THEN "WaitToFetchStatusAgain"
  ELSE "TriggerReplaceInstances"

Finished(e) ==
  /\ At(e, MAINTENANCE, "Finished?")
  /\ LET next == FinishedChoice(ex[e].ctx)
     IN ex' = [ex EXCEPT ![e] =
                 IF next = "ImagePipeline"
                 THEN FailState(@, "ImagePipeline", "ImagePipeline")
                 ELSE [@ EXCEPT !.pc = next]]
  /\ UNCHANGED <<azConfigurations, imagePipeline, build, clock, route, instances, calls, starts>>

\* Wait state WaitToFetchStatusAgain: 2 minutes, then the status poll.
WaitToFetchStatusAgain(e) ==
  /\ At(e, MAINTENANCE, "WaitToFetchStatusAgain")
  /\ ex' = [ex EXCEPT ![e].pc = "GetImagePipelineStatusTask"]
  /\ UNCHANGED <<azConfigurations, imagePipeline, build, clock, route, instances, calls, starts>>

\* A RUN_JOB task of Maintenance, first half: startExecution of the state
\* machine wf, whose first state is first.
TriggerNested(e, task, wf, first) ==
  /\ At(e, MAINTENANCE, task)
  /\ ex[e].child = 0
  /\ \/ /\ ex' = Append([ex EXCEPT ![e].child = Len(ex) + 1],
                        NewExecution(wf, first, e))
        /\ calls' = calls \cup {Call("startExecution", e, wf, TRUE)}
     \/ \E err \in TaskErrors :
          /\ ex' = [ex EXCEPT ![e] = MaintenanceFailed(@, err)]
          /\ calls' = calls \cup {Call("startExecution", e, wf, FALSE)}
  /\ UNCHANGED <<azConfigurations, imagePipeline, build, clock, route, instances, starts>>

\* The output of a RUN_JOB task whose nested execution x has succeeded.
RunJobOutput(x) == [Output |-> x.ctx, Status |-> "SUCCEEDED"]

\* Task TriggerReplaceInstances, first half.
TriggerReplaceInstances(e) ==
  TriggerNested(e, "TriggerReplaceInstances", REPLACE, "GetStateMachineRunningTask")

\* Task TriggerReplaceInstances, second half: the task ends when the nested
\* execution has; a failed one fails the task, which the catch routes to
\* the Fail state. The next state is TriggerFallback.
TriggerReplaceInstancesJoin(e) ==
  /\ At(e, MAINTENANCE, "TriggerReplaceInstances")
  /\ ex[e].child # 0
  /\ RunJobDone(ex[ex[e].child])
  /\ ex' = [ex EXCEPT ![e] =
              IF RunJobFailed(ex[ex[e].child])
              THEN MaintenanceFailed(@, "States.TaskFailed")
              ELSE [@ EXCEPT !.pc = "TriggerFallback",
                             !.child = 0,
                             !.ctx = RunJobOutput(ex[ex[e].child])]]
  /\ UNCHANGED <<azConfigurations, imagePipeline, build, clock, route, instances, calls, starts>>

\* Task TriggerFallback, first half.
TriggerFallback(e) ==
  TriggerNested(e, "TriggerFallback", FALLBACK, "GetRunningNatInstancesTask")

\* Task TriggerFallback, second half; it is the last state.
TriggerFallbackJoin(e) ==
  /\ At(e, MAINTENANCE, "TriggerFallback")
  /\ ex[e].child # 0
  /\ RunJobDone(ex[ex[e].child])
  /\ ex' = [ex EXCEPT ![e] =
              IF RunJobFailed(ex[ex[e].child])
              THEN MaintenanceFailed(@, "States.TaskFailed")
              ELSE Succeed(@, RunJobOutput(ex[ex[e].child]))]
  /\ UNCHANGED <<azConfigurations, imagePipeline, build, clock, route, instances, calls, starts>>

\* Task TriggerImagePipelineTask when the build it starts is not the first
\* the list of build versions shows: the polled status stays that of the
\* earlier build. The task does not differ, the provider's answer does.
TriggerImagePipelineTaskUnlisted(e) ==
  /\ At(e, MAINTENANCE, "TriggerImagePipelineTask")
  /\ build' = StartImagePipelineExecution(build)
  /\ ex' = [ex EXCEPT ![e].ctx = [ImageBuildVersionArn |-> "image"],
                      ![e].pc = "WaitForPipelineToRun"]
  /\ calls' = calls \cup
       {Call("startImagePipelineExecution", e, "ImagePipeline", TRUE)}
  /\ UNCHANGED <<azConfigurations, imagePipeline, clock, route, instances,
                 starts>>

\* The provider comes to list the build started last as the first one.
StartedBuildListed ==
  /\ build # "NONE"
  /\ imagePipeline # build
  /\ imagePipeline' = build
  /\ UNCHANGED <<azConfigurations, build, clock, route, instances, ex, calls,
                 starts>>

\* The image pipeline, outside the state machines: a build in progress
\* ends available or failed.
ImagePipelineProgress ==
  /\ imagePipeline = "BUILDING" \/ build = "BUILDING"
  /\ \E status \in {"AVAILABLE", "FAILED"} :
       /\ imagePipeline' = IF imagePipeline = "BUILDING" THEN status
                           ELSE imagePipeline
       /\ build' = IF build = "BUILDING" THEN status ELSE build
  /\ UNCHANGED <<azConfigurations, clock, route, instances, ex, calls, starts>>

----------------------------------------------------------------------------
\* The whole-execution timeout.

\* The states in which an execution spends its time: the poll loop around
\* the 10 seconds of WaitForRun, and the wait for a nested execution.
PollLoopStates == {"WaitForRun", "GetInstanceStateTask", "IsInstanceReady?"}

InPollLoop(e) ==
  /\ Has(ex[e].items, "CreateNewInstances")
  /\ \E i \in 1..Len(ex[e].items["CreateNewInstances"]) :
       ex[e].items["CreateNewInstances"][i].pc \in PollLoopStates

\* The states in which a Maintenance execution spends its time: its two
\* Wait states and the waits for a nested execution.
MaintenanceWaits(x) ==
  /\ x.wf = MAINTENANCE
  /\ \/ x.pc \in {"WaitForPipelineToRun", "WaitToFetchStatusAgain"}
     \/ x.pc \in {"TriggerReplaceInstances", "TriggerFallback"} /\ x.child # 0

Waiting(e) ==
  \/ InPollLoop(e)
  \/ ex[e].pc = "TriggerFailover" /\ ex[e].child # 0
  \/ MaintenanceWaits(ex[e])

\* The timeout of the state machine expires while execution e waits: the
\* execution ends where it stands, with the error States.Timeout.
ExecutionTimeout(e) ==
  /\ Active(e)
  /\ TimeoutMinutes(ex[e].wf) > 0
  /\ Waiting(e)
  /\ ex' = [ex EXCEPT ![e] =
              Ended(@, "Failed", @.pc, "States.Timeout", EmptyDoc)]
  /\ UNCHANGED <<azConfigurations, imagePipeline, build, clock, route, instances, calls, starts>>

----------------------------------------------------------------------------
\* The Wait states of Maintenance with the clock: the durations of
\* NatInstances.ts, and the timeout of the state machine counted from the
\* start of the execution. The tasks are taken to last no time, which makes
\* the clock a lower bound of the time an execution has run.

\* Minutes a Wait state of Maintenance lasts; 0 for any other state.
WaitMinutes(pc) ==
  IF pc = "WaitForPipelineToRun" THEN 10
  ELSE IF pc = "WaitToFetchStatusAgain" THEN 2
  ELSE 0

\* The Wait state named state ends after its duration, when the state
\* machine has not timed out by then.
TimedWait(e, state) ==
  /\ At(e, MAINTENANCE, state)
  /\ clock + WaitMinutes(state) <= TimeoutMinutes(MAINTENANCE)
  /\ clock' = clock + WaitMinutes(state)
  /\ ex' = [ex EXCEPT ![e].pc = "GetImagePipelineStatusTask"]
  /\ UNCHANGED <<azConfigurations, imagePipeline, build, route, instances, calls,
                 starts>>

WaitForPipelineToRunTimed(e) == TimedWait(e, "WaitForPipelineToRun")

WaitToFetchStatusAgainTimed(e) == TimedWait(e, "WaitToFetchStatusAgain")

\* The timeout of the state machine expires while execution e stands in a
\* Wait state that would last to the timeout or longer.
ExecutionTimeoutTimed(e) ==
  /\ Active(e)
  /\ ex[e].wf = MAINTENANCE
  /\ WaitMinutes(ex[e].pc) > 0
  /\ clock + WaitMinutes(ex[e].pc) >= TimeoutMinutes(MAINTENANCE)
  /\ clock' = TimeoutMinutes(MAINTENANCE)
  /\ ex' = [ex EXCEPT ![e] =
              Ended(@, "Failed", @.pc, "States.Timeout", EmptyDoc)]
  /\ UNCHANGED <<azConfigurations, imagePipeline, build, route, instances, calls,
                 starts>>

----------------------------------------------------------------------------
\* Initial states.

\* An instance running before any execution starts: launched by an earlier
\* ReplaceInstance run, hence tagged and protected against termination.
OldInstance(subnet, reservation) ==
  [state |-> "running", subnet |-> subnet, reservation |-> reservation,
   tagName |-> NAT_INSTANCES_NAME_TAG,
   tagStateMachine |-> "NATInstanceReplaceInstance",
   disableApiTermination |-> TRUE, sourceDestCheck |-> FALSE,
   launchedBy |-> 0]

PublicSubnets(n) == {AzConfiguration(k).publicSubnetId : k \in 1..n}

RouteTables(n) == {AzConfiguration(k).privateRouteTableId : k \in 1..n}

Gateways(n) == {AzConfiguration(k).natGatewayId : k \in 1..n}

\* Common part: n zones, the old instances inst, the routes rt.
InitWith(n, inst, rt, st) ==
  /\ azConfigurations = [k \in 1..n |-> AzConfiguration(k)]
  /\ imagePipeline = "AVAILABLE"
  /\ build = "NONE"
  /\ clock = 0
  /\ instances = inst
  /\ route = rt
  /\ ex = << >>
  /\ calls = {}
  /\ starts = st

NoStarts == [w \in WorkflowNames |-> 0]

\* The ways to group m instances in reservations: each in one of its own,
\* or all in one.
Groupings(m) == IF m > 1 THEN BOOLEAN ELSE {FALSE}

\* m old instances, instance k in subnet sub[k].
OldInstancesIn(m, sub, shared) ==
  [i \in {InstanceId(k) : k \in 1..m} |->
     OldInstance(sub[i[2]], IF shared THEN 1 ELSE i[2])]

\* Every placement of up to MaxOld old instances in the subnets S.
OldInstances(S) ==
  UNION {
    UNION {{OldInstancesIn(m, sub, shared) : sub \in [1..m -> S]}
           : shared \in Groupings(m)}
    : m \in 0..MaxOld}

\* Up to MaxOld old instances spread over the n zones' public subnets in
\* turn, as earlier Replacement runs leave them.
OldInstancesSpread(n) ==
  UNION {
    {OldInstancesIn(m, [k \in 1..m |-> AzConfiguration(((k - 1) % n) + 1).publicSubnetId],
                    shared)
       : shared \in Groupings(m)}
    : m \in 0..MaxOld}

\* The targets zone k's route has at the start: its gateway, the instance
\* of number k, or the gateway of the next zone.
StartTargets(n, k) ==
  {AzConfiguration(k).natGatewayId, InstanceId(k),
   AzConfiguration((k % n) + 1).natGatewayId}

StartRoutes(n) ==
  {rt \in [RouteTables(n) -> UNION {StartTargets(n, k) : k \in 1..n}] :
     \A r \in RouteTables(n) : rt[r] \in StartTargets(n, r[2])}

\* Failover alone: an instance per zone, the routes at any of the targets.
InitFailover ==
  \E n \in 1..MaxZones :
    \E rt \in StartRoutes(n) :
      InitWith(n,
               OldInstancesIn(n, [k \in 1..n |-> AzConfiguration(k).publicSubnetId],
                              FALSE),
               rt, [NoStarts EXCEPT ![FAILOVER] = MaxFailoverStarts])

Executions == 1..Len(ex)

NextFailover ==
  \/ StartFailover
  \/ \E e \in Executions : GetAZConfigurations(e)
  \/ \E e \in Executions : MapOfAZConfigurations(e)
  \/ \E e \in Executions : \E i \in Zones : ReplaceRouteTask(e, i)
  \/ \E e \in Executions : MapOfAZConfigurationsEnd(e)

SpecFailover == InitFailover /\ [][NextFailover]_vars

\* Fallback alone: one execution, from any placement of the running
\* instances, a subnet of no zone included, each route at the zone's
\* gateway or at the first instance.
InitFallback ==
  \E n \in 1..MaxZones :
    \E inst \in OldInstances(PublicSubnets(n) \cup {OtherSubnet}) :
      \E rt \in StartRoutes(n) :
        /\ \A r \in RouteTables(n) : rt[r] \in Gateways(n) => rt[r][2] = r[2]
        /\ InitWith(n, inst, rt, [NoStarts EXCEPT ![FALLBACK] = 1])

\* The indexes an item of a Map over reservations can have.
ItemIndexes == 1..Cardinality(DOMAIN instances)

NextFallback ==
  \/ StartFallback
  \/ \E e \in Executions : GetRunningNatInstancesTask(e)
  \/ \E e \in Executions : Instances(e)
  \/ \E e \in Executions : \E i \in ItemIndexes : RawAZConfigurations(e, i)
  \/ \E e \in Executions : \E i \in ItemIndexes : GetDesiredRouteTableId(e, i)
  \/ \E e \in Executions : \E i \in ItemIndexes : ReplaceInstanceRouteTask(e, i)
  \/ \E e \in Executions : InstancesEnd(e)

SpecFallback == InitFallback /\ [][NextFallback]_vars

\* The runs of Fallback an operator starts one after, or during, the other.
FallbackRuns == 2

\* Fallback run twice, from any placement of the running instances with at
\* most one in each public subnet, and from any of the start routes.
InitFallbackTwice ==
  \E n \in 1..MaxZones :
    \E inst \in OldInstances(PublicSubnets(n)) :
      \E rt \in StartRoutes(n) :
        /\ \A i, j \in DOMAIN inst : inst[i].subnet = inst[j].subnet => i = j
        /\ InitWith(n, inst, rt, [NoStarts EXCEPT ![FALLBACK] = FallbackRuns])

SpecFallbackTwice == InitFallbackTwice /\ [][NextFallback]_vars

\* The routes of normal operation: each zone's route targets an instance
\* running in its public subnet when there is one, else its gateway.
RoutesToInstances(n, inst) ==
  [r \in RouteTables(n) |->
     LET here == {i \in DOMAIN inst :
                    inst[i].subnet = AzConfiguration(r[2]).publicSubnetId}
     IN IF here = {} THEN AzConfiguration(r[2]).natGatewayId
        ELSE CHOOSE i \in here : \A j \in here : i[2] <= j[2]]

RoutesToGateways(n) ==
  [r \in RouteTables(n) |-> AzConfiguration(r[2]).natGatewayId]

\* One Replacement execution, started by an operator or by Maintenance.
InitReplace ==
  \E n \in 1..MaxZones :
    \E inst \in OldInstancesSpread(n) :
      \E rt \in {RoutesToInstances(n, inst), RoutesToGateways(n)} :
        InitWith(n, inst, rt, [NoStarts EXCEPT ![REPLACE] = 1])

NextReplace ==
  \/ StartReplacement
  \/ \E e \in Executions : GetStateMachineRunningTask(e)
  \/ \E e \in Executions : AlreadyRunningStateMachine(e)
  \/ \E e \in Executions : TriggerFailover(e)
  \/ \E e \in Executions : GetAZConfigurations(e)
  \/ \E e \in Executions : MapOfAZConfigurations(e)
  \/ \E e \in Executions : \E i \in Zones : ReplaceRouteTask(e, i)
  \/ \E e \in Executions : MapOfAZConfigurationsEnd(e)
  \/ \E e \in Executions : TriggerFailoverJoin(e)
  \/ \E e \in Executions : GetNatInstancesTask(e)
  \/ \E e \in Executions : InstancesReplacement(e)
  \/ \E e \in Executions : AnyInstance(e)
  \/ \E e \in Executions : NoOp(e)
  \/ \E e \in Executions : DisableInstancesTerminationProtection(e)
  \/ \E e \in Executions : \E i \in ItemIndexes : DisableTerminationProtectionTask(e, i)
  \/ \E e \in Executions : \E i \in ItemIndexes : TerminateOldInstanceTask(e, i)
  \/ \E e \in Executions : DisableInstancesTerminationProtectionEnd(e)
  \/ \E e \in Executions : GetSubnets(e)
  \/ \E e \in Executions : CreateNewInstances(e)
  \/ \E e \in Executions : \E i \in Zones : GetNatInstanceImageTask(e, i)
  \/ \E e \in Executions : \E i \in Zones : RunNatInstanceTask(e, i)
  \/ \E e \in Executions : \E i \in Zones : WaitForRun(e, i)
  \/ \E e \in Executions : \E i \in Zones : GetInstanceStateTask(e, i)
  \/ \E e \in Executions : \E i \in Zones : IsInstanceReady(e, i)
  \/ \E e \in Executions : \E i \in Zones : DisableSourceDestCheckTask(e, i)
  \/ \E e \in Executions : CreateNewInstancesEnd(e)
  \/ \E e \in Executions : InstancesReplacementEnd(e)
  \/ \E e \in Executions : ExecutionTimeout(e)

SpecReplace == InitReplace /\ [][NextReplace]_vars

\* The task getRunInstanceTask makes, run for zone k in an execution e of
\* a state machine other than Replacement: the StateMachine tag is the
\* name of that state machine. The execution stays where it is.
RunInstanceTaskElsewhere(e, k) ==
  /\ Active(e)
  /\ ex[e].wf # REPLACE
  /\ ex[e].parent = 0
  /\ k \in Zones
  /\ NewInstanceId(e, k) \notin DOMAIN instances
  /\ LET input == [Image |-> [ImageId |-> LatestNatImage],
                   publicSubnetId |-> azConfigurations[k].publicSubnetId]
         p == RunInstanceParameters(input, ex[e].wf)
         id == NewInstanceId(e, k)
     IN /\ instances' = (id :> LaunchedInstance(p, id, e)) @@ instances
        /\ calls' = calls \cup {Call("runInstances", e, p.SubnetId, TRUE)}
  /\ UNCHANGED <<azConfigurations, imagePipeline, build, clock, route, ex, starts>>

\* One execution of any of the four state machines is started.
InitRunInstance ==
  \E n \in 1..MaxZones :
    \E inst \in OldInstancesSpread(n) :
      \E wf \in WorkflowNames :
        InitWith(n, inst, RoutesToInstances(n, inst),
                 [NoStarts EXCEPT ![wf] = 1])

\* Replacement as it is, and the launch task in the other state machines.
NextRunInstance ==
  \/ NextReplace
  \/ StartFailover
  \/ StartFallback
  \/ StartMaintenance
  \/ \E e \in Executions : \E k \in Zones : RunInstanceTaskElsewhere(e, k)

SpecRunInstance == InitRunInstance /\ [][NextRunInstance]_vars

\* The same, with time passing: an execution that keeps waiting reaches the
\* timeout of its state machine.
SpecReplaceTimed ==
  /\ InitReplace
  /\ [][NextReplace]_vars
  /\ WF_vars(\E e \in Executions : ExecutionTimeout(e))

\* Replacement executions started close together: one zone, no old
\* instance, the route at the gateway.
InitReplaceStarts ==
  InitWith(1, OldInstancesIn(0, << >>, FALSE), RoutesToGateways(1),
           [NoStarts EXCEPT ![REPLACE] = MaxReplaceStarts])

SpecReplaceStarts == InitReplaceStarts /\ [][NextReplace]_vars

\* One Replacement execution over one zone that finds no instance running,
\* or more instances, each in a reservation of its own, than a Map state
\* runs at a time.
InitReplaceMany ==
  \E m \in {0, ManyInstances} :
    InitWith(1,
             OldInstancesIn(m, [k \in 1..m |-> AzConfiguration(1).publicSubnetId],
                            FALSE),
             RoutesToGateways(1), [NoStarts EXCEPT ![REPLACE] = 1])

SpecReplaceMany == InitReplaceMany /\ [][NextReplace]_vars

\* One Replacement execution with a Fallback and a Failover execution that
\* the connectivity checker or an operator starts at any time: one zone
\* with no instance or one, the route at the instance or at the gateway.
InitReplaceWithOthers ==
  \E m \in {0, 1} :
    LET inst == OldInstancesIn(m, [k \in 1..m |-> AzConfiguration(1).publicSubnetId],
                               FALSE)
    IN \E rt \in {RoutesToInstances(1, inst), RoutesToGateways(1)} :
         InitWith(1, inst, rt,
                  [NoStarts EXCEPT ![REPLACE] = 1, ![FALLBACK] = 1,
                                   ![FAILOVER] = 1])

NextReplaceWithOthers ==
  \/ NextReplace
  \/ StartFailover
  \/ NextFallback

SpecReplaceWithOthers == InitReplaceWithOthers /\ [][NextReplaceWithOthers]_vars

\* One Maintenance execution, started by the schedule or by an operator,
\* whatever the status of the image pipeline.
InitMaintenance ==
  \E n \in 1..MaxZones :
    \E inst \in OldInstancesSpread(n) :
      \E rt \in {RoutesToInstances(n, inst), RoutesToGateways(n)} :
        \E status \in PipelineStatuses :
          /\ azConfigurations = [k \in 1..n |-> AzConfiguration(k)]
          /\ imagePipeline = status
          /\ build = "NONE"
          /\ clock = 0
          /\ instances = inst
          /\ route = rt
          /\ ex = << >>
          /\ calls = {}
          /\ starts = [NoStarts EXCEPT ![MAINTENANCE] = 1]

\* The steps of the executions a Maintenance execution triggers.
NestedSteps ==
  \/ \E e \in Executions : GetStateMachineRunningTask(e)
  \/ \E e \in Executions : AlreadyRunningStateMachine(e)
  \/ \E e \in Executions : TriggerFailover(e)
  \/ \E e \in Executions : GetAZConfigurations(e)
  \/ \E e \in Executions : MapOfAZConfigurations(e)
  \/ \E e \in Executions : \E i \in Zones : ReplaceRouteTask(e, i)
  \/ \E e \in Executions : MapOfAZConfigurationsEnd(e)
  \/ \E e \in Executions : TriggerFailoverJoin(e)
  \/ \E e \in Executions : GetNatInstancesTask(e)
  \/ \E e \in Executions : InstancesReplacement(e)
  \/ \E e \in Executions : AnyInstance(e)
  \/ \E e \in Executions : NoOp(e)
  \/ \E e \in Executions : DisableInstancesTerminationProtection(e)
  \/ \E e \in Executions : \E i \in ItemIndexes : DisableTerminationProtectionTask(e, i)
  \/ \E e \in Executions : \E i \in ItemIndexes : TerminateOldInstanceTask(e, i)
  \/ \E e \in Executions : DisableInstancesTerminationProtectionEnd(e)
  \/ \E e \in Executions : GetSubnets(e)
  \/ \E e \in Executions : CreateNewInstances(e)
  \/ \E e \in Executions : \E i \in Zones : GetNatInstanceImageTask(e, i)
  \/ \E e \in Executions : \E i \in Zones : RunNatInstanceTask(e, i)
  \/ \E e \in Executions : \E i \in Zones : WaitForRun(e, i)
  \/ \E e \in Executions : \E i \in Zones : GetInstanceStateTask(e, i)
  \/ \E e \in Executions : \E i \in Zones : IsInstanceReady(e, i)
  \/ \E e \in Executions : \E i \in Zones : DisableSourceDestCheckTask(e, i)
  \/ \E e \in Executions : CreateNewInstancesEnd(e)
  \/ \E e \in Executions : InstancesReplacementEnd(e)
  \/ \E e \in Executions : GetRunningNatInstancesTask(e)
  \/ \E e \in Executions : Instances(e)
  \/ \E e \in Executions : \E i \in ItemIndexes : RawAZConfigurations(e, i)
  \/ \E e \in Executions : \E i \in ItemIndexes : GetDesiredRouteTableId(e, i)
  \/ \E e \in Executions : \E i \in ItemIndexes : ReplaceInstanceRouteTask(e, i)
  \/ \E e \in Executions : InstancesEnd(e)

NextMaintenance ==
  \/ StartMaintenance
  \/ \E e \in Executions : GetInitialImagePipelineStatusTask(e)
  \/ \E e \in Executions : AlreadyRunning(e)
  \/ \E e \in Executions : TriggerImagePipelineTask(e)
  \/ \E e \in Executions : WaitForPipelineToRun(e)
  \/ \E e \in Executions : GetImagePipelineStatusTask(e)
  \/ \E e \in Executions : Finished(e)
  \/ \E e \in Executions : WaitToFetchStatusAgain(e)
  \/ \E e \in Executions : TriggerReplaceInstances(e)
  \/ \E e \in Executions : TriggerReplaceInstancesJoin(e)
  \/ \E e \in Executions : TriggerFallback(e)
  \/ \E e \in Executions : TriggerFallbackJoin(e)
  \/ ImagePipelineProgress
  \/ NestedSteps
  \/ \E e \in Executions : ExecutionTimeout(e)

SpecMaintenance == InitMaintenance /\ [][NextMaintenance]_vars

\* One Maintenance execution runs one execution of each state machine.
MaintenanceRun == 1..Cardinality(WorkflowNames)

\* A step of execution e: a state of its state machine is entered, a task
\* of it returns or fails, or its timeout expires.
ExecutionStep(e) ==
  /\ Active(e)
  /\ NextMaintenance
  /\ ex'[e] # ex[e]

\* The scheduling of the service: a task call returns or hits its task
\* timeout and a state that can be entered is, so an execution that can
\* take a step does (weak fairness of its steps); time passes in every
\* Wait state and in every poll, so an execution that waits again and
\* again reaches the timeout of its state machine (strong fairness of the
\* timeout). Nothing is assumed of the image build.
MaintenanceFairness ==
  \A e \in MaintenanceRun :
    /\ WF_vars(ExecutionStep(e))
    /\ SF_vars(ExecutionTimeout(e))

\* One Maintenance execution over one zone, with no instance running or
\* with one, the route on it, and the image build in any status.
InitMaintenanceFair ==
  \E m \in 0..1 :
    \E status \in PipelineStatuses :
      LET inst == OldInstancesIn(m, [k \in 1..m |-> AzConfiguration(1).publicSubnetId],
                                 FALSE)
      IN /\ azConfigurations = [k \in 1..1 |-> AzConfiguration(k)]
         /\ imagePipeline = status
         /\ build = "NONE"
         /\ clock = 0
         /\ instances = inst
         /\ route = RoutesToInstances(1, inst)
         /\ ex = << >>
         /\ calls = {}
         /\ starts = [NoStarts EXCEPT ![MAINTENANCE] = 1]

SpecMaintenanceFair ==
  InitMaintenanceFair /\ [][NextMaintenance]_vars /\ MaintenanceFairness

\* Maintenance executions started close together, by the schedule and by
\* an operator: one zone, no old instance, the route at the gateway.
InitMaintenanceStarts ==
  \E status \in PipelineStatuses :
    /\ azConfigurations = [k \in 1..1 |-> AzConfiguration(k)]
    /\ imagePipeline = status
    /\ build = "NONE"
    /\ clock = 0
    /\ instances = OldInstancesIn(0, << >>, FALSE)
    /\ route = RoutesToGateways(1)
    /\ ex = << >>
    /\ calls = {}
    /\ starts = [NoStarts EXCEPT ![MAINTENANCE] = MaxMaintenanceStarts]

\* The steps of Maintenance executions up to the start of the nested
\* Replacement execution, which is not followed further here.
NextMaintenanceStarts ==
  \/ StartMaintenance
  \/ \E e \in Executions : GetInitialImagePipelineStatusTask(e)
  \/ \E e \in Executions : AlreadyRunning(e)
  \/ \E e \in Executions : TriggerImagePipelineTask(e)
  \/ \E e \in Executions : WaitForPipelineToRun(e)
  \/ \E e \in Executions : GetImagePipelineStatusTask(e)
  \/ \E e \in Executions : Finished(e)
  \/ \E e \in Executions : WaitToFetchStatusAgain(e)
  \/ \E e \in Executions : TriggerReplaceInstances(e)
  \/ ImagePipelineProgress
  \/ \E e \in Executions : ExecutionTimeout(e)

SpecMaintenanceStarts == InitMaintenanceStarts /\ [][NextMaintenanceStarts]_vars

\* One Maintenance execution with the clock, followed up to the start of
\* the nested Replacement execution: one zone, no old instance.
InitMaintenanceTimed ==
  \E status \in PipelineStatuses :
    /\ azConfigurations = [k \in 1..1 |-> AzConfiguration(k)]
    /\ imagePipeline = status
    /\ build = "NONE"
    /\ clock = 0
    /\ instances = OldInstancesIn(0, << >>, FALSE)
    /\ route = RoutesToGateways(1)
    /\ ex = << >>
    /\ calls = {}
    /\ starts = [NoStarts EXCEPT ![MAINTENANCE] = 1]

NextMaintenanceTimed ==
  \/ StartMaintenance
  \/ \E e \in Executions : GetInitialImagePipelineStatusTask(e)
  \/ \E e \in Executions : AlreadyRunning(e)
  \/ \E e \in Executions : TriggerImagePipelineTask(e)
  \/ \E e \in Executions : WaitForPipelineToRunTimed(e)
  \/ \E e \in Executions : GetImagePipelineStatusTask(e)
  \/ \E e \in Executions : Finished(e)
  \/ \E e \in Executions : WaitToFetchStatusAgainTimed(e)
  \/ \E e \in Executions : TriggerReplaceInstances(e)
  \/ ImagePipelineProgress
  \/ \E e \in Executions : ExecutionTimeoutTimed(e)

SpecMaintenanceTimed == InitMaintenanceTimed /\ [][NextMaintenanceTimed]_vars

\* One Maintenance execution, followed up to the start of the nested
\* Replacement execution, with a provider whose list of build versions may
\* show an earlier build first: the order of $.ImageSummaryList is the
\* provider's, and the status task reads its first element.
NextMaintenanceUnlisted ==
  \/ NextMaintenanceStarts
  \/ \E e \in Executions : TriggerImagePipelineTaskUnlisted(e)
  \/ StartedBuildListed

SpecMaintenanceUnlisted ==
  InitMaintenanceTimed /\ [][NextMaintenanceUnlisted]_vars

----------------------------------------------------------------------------
\* The connectivity checker: the scheduled rule and the Lambda function of
\* each zone. In this part the clock counts seconds, and calls holds the
\* triggers of the rule and the runs of the functions that have not ended.

\* The rule fires when a period starts: all the functions at once, one run
\* for each zone configuration.
ConnectivityCheckerTrigger ==
  /\ clock % functionTimeoutInSeconds = 0
  /\ Call("trigger", 0, clock, TRUE) \notin calls
  /\ calls' = calls \cup {Call("trigger", 0, clock, TRUE)}
                    \cup {Call("run", k, clock, TRUE) : k \in Zones}
  /\ UNCHANGED <<azConfigurations, imagePipeline, build, clock, route, instances,
                 ex, starts>>

\* The run of the function of zone k that started at second t ends: the
\* handler returns, or the function timeout stops it.
ConnectivityCheckerEnds(k, t) ==
  /\ Call("run", k, t, TRUE) \in calls
  /\ calls' = calls \ {Call("run", k, t, TRUE)}
  /\ UNCHANGED <<azConfigurations, imagePipeline, build, clock, route, instances,
                 ex, starts>>

\* The seconds at which the runs that have not ended started.
RunStarts == {c.arg : c \in {d \in calls : d.api = "run"}}

\* Time passes, by the interval between two checks of a run: no run lasts
\* beyond the function timeout, and the rule fires when it is due.
ConnectivityCheckerTimePasses ==
  /\ clock < MaxCheckerPeriods * functionTimeoutInSeconds
  /\ clock % functionTimeoutInSeconds = 0 => Call("trigger", 0, clock, TRUE) \in calls
  /\ \A t \in RunStarts :
       clock + CONNECTIVITY_CHECK_INTERVAL <= t + functionTimeoutInSeconds
  /\ clock' = clock + CONNECTIVITY_CHECK_INTERVAL
  /\ UNCHANGED <<azConfigurations, imagePipeline, build, route, instances, ex, calls,
                 starts>>

InitConnectivityChecker ==
  \E n \in 1..MaxZones :
    InitWith(n,
             OldInstancesIn(n, [k \in 1..n |-> AzConfiguration(k).publicSubnetId],
                            FALSE),
             RoutesToGateways(n), NoStarts)

NextConnectivityChecker ==
  \/ ConnectivityCheckerTrigger
  \/ \E k \in Zones : \E t \in RunStarts : ConnectivityCheckerEnds(k, t)
  \/ ConnectivityCheckerTimePasses

SpecConnectivityChecker ==
  InitConnectivityChecker /\ [][NextConnectivityChecker]_vars

-----------------------------------------------------------------------------
\* The Vpc stack: the names of the parameters it exports for each subnet.
\* A string is a sequence of one-character strings.

\* String.prototype.toUpperCase on one character.
toUpperCase(c) ==
  CASE c = "a" -> "A"
    [] c = "e" -> "E"
    [] c = "s" -> "S"
    [] c = "t" -> "T"
    [] c = "u" -> "U"
    [] c = "w" -> "W"
    [] OTHER -> c

\* availabilityZone.split('-'): the pieces between the dashes; the empty
\* string has one empty piece.
RECURSIVE Split(_)
Split(s) ==
  IF \A i \in 1..Len(s) : s[i] # "-" THEN <<s>>
  ELSE LET d == CHOOSE i \in 1..Len(s) :
                  s[i] = "-" /\ \A j \in 1..(i - 1) : s[j] # "-"
       IN <<SubSeq(s, 1, d - 1)>> \o Split(SubSeq(s, d + 1, Len(s)))

\* Mutant: the whole part is upper-cased.
CapitalizePart_WholePart(part) == [i \in 1..Len(part) |-> toUpperCase(part[i])]

\* Mutant: the part is kept as it is.
CapitalizePart_Unchanged(part) == part

\* part[0].toUpperCase().concat(part.substring(1)), of a part that has a
\* first character.
CapitalizePart(part) == <<toUpperCase(part[1])>> \o SubSeq(part, 2, Len(part))

\* Mutant: the parts are joined with the dash they were split on.
RECURSIVE Join_WithDash(_)
Join_WithDash(parts) ==
  IF Len(parts) = 0 THEN << >>
  ELSE IF Len(parts) = 1 THEN parts[1]
  ELSE parts[1] \o <<"-">> \o Join_WithDash(Tail(parts))

\* Mutant: the parts are joined last to first.
RECURSIVE Join_Reversed(_)
Join_Reversed(parts) ==
  IF Len(parts) = 0 THEN << >> ELSE Join_Reversed(Tail(parts)) \o Head(parts)

\* join('').
RECURSIVE Join(_)
Join(parts) ==
  IF Len(parts) = 0 THEN << >> ELSE Head(parts) \o Join(Tail(parts))

\* The value the function returns, or the TypeError of part[0] being
\* undefined for an empty part.
getCamelCaseAvailabilityZoneName(availabilityZone) ==
  LET parts == Split(availabilityZone)
  IN IF \E i \in 1..Len(parts) : Len(parts[i]) = 0
     THEN [threw |-> TRUE, value |-> << >>]
     ELSE [threw |-> FALSE, value |-> Join(SeqMap(CapitalizePart, parts))]

\* The names of availability zones: every string of at most MaxNameLength
\* characters, and the name of a zone of a region.
AvailabilityZoneNames ==
  UNION {[1..l -> {"a", "e", "A", "1", "-"}] : l \in 0..MaxNameLength}
    \cup {<<"e", "u", "-", "w", "e", "s", "t", "-", "1", "a">>}

\* The subnets of the kind whose parameters the stack has created.
Exported(kind) ==
  {c.by : c \in {d \in calls : d.api = "StringParameter" /\ d.arg[1][1] = kind}}

SynthFailed == \E c \in calls : c.api = "TypeError"

\* The two parameters of the subnet of zone k; the constructor throws when
\* the name of the zone cannot be camel-cased.
ExportSubnet(k, kind, first, second) ==
  LET az == azConfigurations[k].availabilityZone
      camelCaseAzName == getCamelCaseAvailabilityZoneName(az)
  IN /\ calls' = calls \cup
          IF camelCaseAzName.threw THEN {Call("TypeError", k, <<<<kind>>, az>>, FALSE)}
          ELSE {Call("StringParameter", k,
                     <<<<kind, camelCaseAzName.value, suffix>>, az>>, TRUE) :
                  suffix \in {first, second}}
     /\ UNCHANGED <<azConfigurations, imagePipeline, build, clock, route,
                    instances, ex, starts>>

\* vpc.publicSubnets.map: the public subnets in order.
ExportPublicSubnet(k) ==
  /\ ~SynthFailed
  /\ k \in Zones \ Exported("PublicSubnet")
  /\ \A j \in 1..(k - 1) : j \in Exported("PublicSubnet")
  /\ ExportSubnet(k, "PublicSubnet", "Id", "NatGatewayId")

\* vpc.privateSubnets.map: the private subnets in order, after the public
\* ones.
ExportPrivateSubnet(k) ==
  /\ ~SynthFailed
  /\ Zones \subseteq Exported("PublicSubnet")
  /\ k \in Zones \ Exported("PrivateSubnet")
  /\ \A j \in 1..(k - 1) : j \in Exported("PrivateSubnet")
  /\ ExportSubnet(k, "PrivateSubnet", "Id", "RouteTableId")

\* A Vpc of one or two zones of any names, nothing deployed in it.
InitVpcStack ==
  /\ \E names \in UNION {[1..n -> AvailabilityZoneNames] : n \in 1..2} :
       /\ Len(names) = 2 =>
            names[2] = <<"e", "u", "-", "w", "e", "s", "t", "-", "1", "a">>
       /\ azConfigurations =
            [k \in 1..Len(names) |->
               [AzConfiguration(k) EXCEPT !.availabilityZone = names[k]]]
  /\ imagePipeline = "AVAILABLE"
  /\ build = "NONE"
  /\ clock = 0
  /\ instances = {}
  /\ route = EmptyDoc
  /\ ex = << >>
  /\ calls = {}
  /\ starts = NoStarts

NextVpcStack ==
  \/ \E k \in Zones : ExportPublicSubnet(k)
  \/ \E k \in Zones : ExportPrivateSubnet(k)

SpecVpcStack == InitVpcStack /\ [][NextVpcStack]_vars

----------------------------------------------------------------------------
\* Properties of the Failover state machine.

CallsBy(e, api) == {c \in calls : c.by = e /\ c.api = api}

Gateway(k) == azConfigurations[k].natGatewayId

RouteTable(k) == azConfigurations[k].privateRouteTableId

FailoverExecutions == {e \in Executions : ex[e].wf = FAILOVER}

\* C1: a Failover execution all of whose replaceRoute calls succeed does not
\* end Failed, and once it has ended Succeeded it has replaced the route of
\* every zone, each route table's 0.0.0.0/0 route targeting the NAT gateway
\* of the same zone.
C1_FailoverRoutesToGateways ==
  \A e \in FailoverExecutions :
    /\ (\A c \in CallsBy(e, "replaceRoute") : c.ok) => ex[e].status # "Failed"
    /\ ex[e].status = "Succeeded" =>
         \A k \in Zones :
           /\ Call("replaceRoute", e, <<RouteTable(k), Gateway(k)>>, TRUE) \in calls
           /\ route[RouteTable(k)] = Gateway(k)

\* C1 witness: a Failover execution over MaxZones zones has ended Succeeded.
C1_Witness ==
  \E e \in FailoverExecutions :
    /\ ex[e].status = "Succeeded"
    /\ Len(azConfigurations) = MaxZones
    /\ Cardinality(CallsBy(e, "replaceRoute")) = MaxZones

\* C2: a Failover execution one of whose replaceRoute calls failed stands in
\* the Fail state Failover: it has ended Failed and never is Succeeded,
\* whatever the other zones' calls did.
C2_FailedCallFailsFailover ==
  \A e \in FailoverExecutions :
    (\E c \in CallsBy(e, "replaceRoute") : ~c.ok) =>
      /\ ex[e].status = "Failed"
      /\ ex[e].pc = "Failover"
      /\ ex[e].cause \in TaskErrors

\* C2 witness: one zone's call failed after another zone's call succeeded.
C2_Witness ==
  \E e \in FailoverExecutions :
    /\ \E c \in CallsBy(e, "replaceRoute") : ~c.ok
    /\ \E c \in CallsBy(e, "replaceRoute") : c.ok
    /\ ex[e].status = "Failed"

----------------------------------------------------------------------------
\* Properties of the ReplaceInstance state machine.

ReplaceExecutions == {e \in Executions : ex[e].wf = REPLACE}

\* The calls that terminate or launch instances.
ReplacementApis ==
  {"modifyInstanceAttribute.DisableApiTermination", "terminateInstances",
   "runInstances"}

\* C3: whenever a Replacement execution has issued a terminateInstances, a
\* disable-termination-protection or a runInstances call, the Failover
\* execution it triggered has ended Succeeded: every zone's route has been
\* replaced with, and targets, the zone's NAT gateway.
C3_FailoverBeforeReplacement ==
  \A c \in calls :
    c.api \in ReplacementApis =>
      LET f == ex[c.by].child
      IN /\ f # 0
         /\ ex[f].status = "Succeeded"
         /\ \A k \in Zones :
              /\ Call("replaceRoute", f, <<RouteTable(k), Gateway(k)>>, TRUE)
                   \in calls
              /\ route[RouteTable(k)] = Gateway(k)

\* C3 witness: over MaxZones zones, an old instance has been terminated and
\* a new one launched.
C3_Witness ==
  /\ Len(azConfigurations) = MaxZones
  /\ \E c \in calls : c.api = "terminateInstances" /\ c.ok
  /\ \E c \in calls : c.api = "runInstances" /\ c.ok

\* The listing of running Replacement executions that execution e got.
ListedRunning(e) ==
  {c.arg : c \in {d \in CallsBy(e, "listExecutions") : d.ok}}

\* C4: a Replacement execution whose listing of running Replacement
\* executions has more than one entry goes from the choice to the Fail state
\* AlreadyRunning and nowhere else: it never succeeds, it triggers no
\* Failover (so no route is replaced for it), and it issues no call besides
\* the listing of executions: no instance listing, termination or launch.
C4_AlreadyRunningDoesNothing ==
  \A e \in ReplaceExecutions :
    (\E l \in ListedRunning(e) : Len(l) > 1) =>
      /\ \/ ex[e].status = "Running" /\ ex[e].pc = "AlreadyRunningStateMachine?"
         \/ /\ ex[e].status = "Failed"
            /\ ex[e].pc = "AlreadyRunning"
            /\ ex[e].cause = "AlreadyRunning"
      /\ ex[e].child = 0
      /\ \A c \in calls : c.by = e => c.api = "listExecutions"

\* Execution e is past the singleton guard and has not ended.
PastGuard(e) ==
  /\ ex[e].wf = REPLACE
  /\ ex[e].status = "Running"
  /\ ex[e].pc \notin {"GetStateMachineRunningTask", "AlreadyRunningStateMachine?"}

\* C4 witness: an execution listed itself and another and has ended in
\* AlreadyRunning while the other is past the guard.
C4_Witness ==
  \E e \in ReplaceExecutions :
    /\ \E l \in ListedRunning(e) : Len(l) > 1
    /\ ex[e].pc = "AlreadyRunning"
    /\ \E o \in ReplaceExecutions : PastGuard(o)

Listing(e) ==
  LET got == {c.arg : c \in {d \in CallsBy(e, "describeInstances") : d.ok}}
  IN IF got = {} THEN [Reservations |-> << >>] ELSE CHOOSE l \in got : TRUE

\* The instances a listing holds, whatever their reservation.
ListedInstances(listing) ==
  UNION {{listing.Reservations[r].Instances[j].InstanceId :
            j \in 1..Len(listing.Reservations[r].Instances)} :
         r \in 1..Len(listing.Reservations)}

LaunchedBy(e) == {i \in DOMAIN instances : instances[i].launchedBy = e}

\* C6: a Replacement execution that has ended Succeeded has terminated
\* every instance of its listing, and has launched exactly one instance per
\* zone configuration, in the zone's public subnet, protected against
\* termination.
C6_ReplacesEveryInstance ==
  \A e \in ReplaceExecutions :
    ex[e].status = "Succeeded" =>
      /\ \A i \in ListedInstances(Listing(e)) :
           instances[i].state = "terminated"
      /\ Cardinality(LaunchedBy(e)) = Len(azConfigurations)
      /\ \A k \in Zones :
           \E i \in LaunchedBy(e) :
             /\ instances[i].subnet = azConfigurations[k].publicSubnetId
             /\ instances[i].disableApiTermination

\* C6, the launches alone: a Replacement execution that has ended Succeeded
\* has launched exactly one instance per zone configuration, in the zone's
\* public subnet, protected against termination, and has terminated the
\* first instance of every reservation of its listing.
C6_ReplacesFirstOfReservation ==
  \A e \in ReplaceExecutions :
    ex[e].status = "Succeeded" =>
      LET rs == Listing(e).Reservations
      IN /\ \A r \in 1..Len(rs) :
              instances[rs[r].Instances[1].InstanceId].state = "terminated"
         /\ Cardinality(LaunchedBy(e)) = Len(azConfigurations)
         /\ \A k \in Zones :
              \E i \in LaunchedBy(e) :
                /\ instances[i].subnet = azConfigurations[k].publicSubnetId
                /\ instances[i].disableApiTermination

\* C6 witness: an execution has ended Succeeded over MaxZones zones with
\* MaxOld instances listed.
C6_Witness ==
  \E e \in ReplaceExecutions :
    /\ ex[e].status = "Succeeded"
    /\ Len(azConfigurations) = MaxZones
    /\ Cardinality(ListedInstances(Listing(e))) = MaxOld

\* The status response holds an entry whose two checks are both 'ok'.
BothOk(r) ==
  /\ Len(r.InstanceStatuses) > 0
  /\ r.InstanceStatuses[1].InstanceStatus.Status = "ok"
  /\ r.InstanceStatuses[1].SystemStatus.Status = "ok"

\* The items of Map state CreateNewInstances of execution e.
CreateItems(e) ==
  IF Has(ex[e].items, "CreateNewInstances")
  THEN ex[e].items["CreateNewInstances"]
  ELSE << >>

\* An item stands at DisableSourceDestCheckTask only with a poll of two
\* 'ok' in hand.
DisablingOnlyAfterOk ==
  \A e \in ReplaceExecutions :
    \A i \in 1..Len(CreateItems(e)) :
      CreateItems(e)[i].pc = "DisableSourceDestCheckTask" =>
        /\ Has(CreateItems(e)[i].ctx, "Instance")
        /\ BothOk(CreateItems(e)[i].ctx.Instance)

\* A step turns the source/destination check of an instance off only for
\* an item that holds the instance's id and a poll of two 'ok'.
CheckOffOnlyAfterOk ==
  \A n \in DOMAIN instances :
    (instances[n].sourceDestCheck /\ ~instances'[n].sourceDestCheck) =>
      \E e \in ReplaceExecutions :
        \E i \in 1..Len(CreateItems(e)) :
          /\ CreateItems(e)[i].pc = "DisableSourceDestCheckTask"
          /\ CreateItems(e)[i].ctx.InstanceId = n
          /\ BothOk(CreateItems(e)[i].ctx.Instance)

\* The step that choice IsInstanceReady? takes on a poll without two 'ok'
\* goes back to WaitForRun and leaves the execution running.
NotOkWaitsAgain ==
  \A e \in Executions :
    \A i \in 1..Len(CreateItems(e)) :
      (/\ CreateItems(e)[i].pc = "IsInstanceReady?"
       /\ ~BothOk(CreateItems(e)[i].ctx.Instance)
       /\ IsInstanceReady(e, i)) =>
        /\ ex'[e].status = "Running"
        /\ ex'[e].items["CreateNewInstances"][i].pc = "WaitForRun"

\* C7: in the poll loop of Replacement, the source/destination check of a
\* new instance is disabled only after a poll whose response holds an entry
\* with InstanceStatus and SystemStatus both 'ok'; on a poll with no entry,
\* or with either check not 'ok', the choice goes back to the wait and the
\* next poll, never to a failure and never on to the disabling.
C7_ReadyOnlyAfterBothOk ==
  /\ []DisablingOnlyAfterOk
  /\ [][CheckOffOnlyAfterOk /\ NotOkWaitsAgain]_vars

\* C7 witness: one new instance is through the loop, its check disabled,
\* while the poll of another came back without two 'ok'.
C7_Witness ==
  \E e \in ReplaceExecutions :
    /\ ex[e].status = "Running"
    /\ \E n \in LaunchedBy(e) : ~instances[n].sourceDestCheck
    /\ \E i \in 1..Len(CreateItems(e)) :
         /\ CreateItems(e)[i].pc = "IsInstanceReady?"
         /\ ~BothOk(CreateItems(e)[i].ctx.Instance)

\* The first execution is a Replacement execution that runs in the poll loop.
PollLoopRuns == Active(1) /\ ex[1].wf = REPLACE /\ InPollLoop(1)

\* The first execution has left the poll loop: every new instance was
\* reported 'ok', or the execution has ended Failed, by the timeout of the
\* state machine or in the Fail state a failed task leads to.
PollLoopOver ==
  /\ Len(ex) >= 1
  /\ \/ ex[1].status = "Running" /\ ~InPollLoop(1)
     \/ /\ ex[1].status = "Failed"
        /\ ex[1].cause = "States.Timeout" \/ ex[1].pc = "ReplaceInstance"

\* C8: a Replacement execution does not stay in the poll loop for ever:
\* unless the polls report every new instance 'ok' (or a task fails), the
\* execution ends Failed with the error States.Timeout when the timeout of
\* the state machine expires.
C8_PollLoopTimesOut == PollLoopRuns ~> PollLoopOver

\* C8 witness: the execution has ended Failed with States.Timeout inside
\* the Parallel state, not in the Fail state of a failed task.
C8_Witness ==
  /\ Len(ex) >= 1
  /\ ex[1].wf = REPLACE
  /\ ex[1].status = "Failed"
  /\ ex[1].pc = "InstancesReplacement"
  /\ ex[1].cause = "States.Timeout"

\* C9: a Replacement execution whose nested Failover execution has ended
\* Failed waits in TriggerFailover or has ended Failed in the Fail state (or
\* by the timeout); it does not succeed and has issued no instance listing,
\* termination or launch.
C9_FailedFailoverFailsReplacement ==
  \A e \in ReplaceExecutions :
    (ex[e].child # 0 /\ ex[ex[e].child].status = "Failed") =>
      /\ \/ ex[e].status = "Running" /\ ex[e].pc = "TriggerFailover"
         \/ /\ ex[e].status = "Failed"
            /\ ex[e].pc \in {"ReplaceInstance", "TriggerFailover"}
      /\ \A c \in calls :
           c.by = e => c.api \notin ReplacementApis \cup {"describeInstances"}

\* C9 witness: the nested Failover execution has ended Failed after one
\* zone's route was replaced, and the Replacement execution has ended in
\* the Fail state.
C9_Witness ==
  \E e \in ReplaceExecutions :
    /\ ex[e].child # 0
    /\ ex[ex[e].child].status = "Failed"
    /\ \E c \in CallsBy(ex[e].child, "replaceRoute") : c.ok
    /\ ex[e].status = "Failed"
    /\ ex[e].pc = "ReplaceInstance"

----------------------------------------------------------------------------
\* Properties of the Fallback state machine.

FallbackExecutions == {e \in Executions : ex[e].wf = FALLBACK}

\* The instance descriptions a listing holds, whatever their reservation.
ListedDescriptions(listing) ==
  UNION {{listing.Reservations[r].Instances[j] :
            j \in 1..Len(listing.Reservations[r].Instances)} :
         r \in 1..Len(listing.Reservations)}

\* The first instance description of every reservation of a listing.
FirstDescriptions(listing) ==
  {listing.Reservations[r].Instances[1] : r \in 1..Len(listing.Reservations)}

\* Execution e has replaced, for each of the descriptions ds, the route of
\* the zones whose public subnet is the instance's subnet, and of no other
\* zone, with the instance as target.
RoutesReplacedFor(e, ds) ==
  \A d \in ds :
    \A k \in Zones :
      azConfigurations[k].publicSubnetId = d.SubnetId
        <=> Call("replaceRoute", e, <<RouteTable(k), d.InstanceId>>, TRUE) \in calls

\* A step changes the route of a zone only to a running NAT instance that
\* stands in the zone's public subnet.
RouteChangesToZoneInstance ==
  \A k \in Zones :
    route'[RouteTable(k)] # route[RouteTable(k)] =>
      \E i \in DOMAIN instances :
        /\ NatInstancesFilter(i)
        /\ instances[i].subnet = azConfigurations[k].publicSubnetId
        /\ route'[RouteTable(k)] = i

\* C10: a Fallback execution that has ended Succeeded has replaced, for
\* each running NAT instance of its listing, the route of exactly the zone
\* whose publicSubnetId is the instance's subnet, with that instance as
\* target; and the route of a zone without a running NAT instance in its
\* public subnet is never changed.
C10_FallbackRoutesEveryInstance ==
  /\ [](\A e \in FallbackExecutions :
          ex[e].status = "Succeeded" =>
            RoutesReplacedFor(e, ListedDescriptions(Listing(e))))
  /\ [][RouteChangesToZoneInstance]_vars

\* C10, for the first instance of each reservation only: the same, and it
\* holds.
C10_FallbackRoutesFirstOfReservation ==
  /\ [](\A e \in FallbackExecutions :
          ex[e].status = "Succeeded" =>
            RoutesReplacedFor(e, FirstDescriptions(Listing(e))))
  /\ [][RouteChangesToZoneInstance]_vars

\* C10 witness: a Fallback execution over MaxZones zones has ended
\* Succeeded with an instance listed and a zone whose public subnet holds
\* no instance.
C10_Witness ==
  \E e \in FallbackExecutions :
    /\ ex[e].status = "Succeeded"
    /\ Len(azConfigurations) = MaxZones
    /\ ListedDescriptions(Listing(e)) # {}
    /\ \E k \in Zones :
         \A d \in ListedDescriptions(Listing(e)) :
           d.SubnetId # azConfigurations[k].publicSubnetId

\* The listing of instances that execution e got holds no reservation.
EmptyListing(e) ==
  \E c \in CallsBy(e, "describeInstances") :
    c.ok /\ Len(c.arg.Reservations) = 0

\* C11: a Fallback execution whose listing returned no running NAT instance
\* issues no replaceRoute call and does not fail: it stands before the Map
\* state, or in the Map state, which has no item and can end, or it has
\* ended Succeeded.
C11_EmptyFallbackSucceeds ==
  \A e \in FallbackExecutions :
    EmptyListing(e) =>
      /\ CallsBy(e, "replaceRoute") = {}
      /\ ex[e].status \in {"Running", "Succeeded"}
      /\ ex[e].status = "Running" =>
           /\ ex[e].pc = "Instances"
           /\ Has(ex[e].items, "Instances") =>
                /\ Len(ex[e].items["Instances"]) = 0
                /\ ENABLED InstancesEnd(e)

\* C11 witness: over MaxZones zones a Fallback execution has listed no
\* instance and has ended Succeeded.
C11_Witness ==
  \E e \in FallbackExecutions :
    /\ EmptyListing(e)
    /\ ex[e].status = "Succeeded"
    /\ Len(azConfigurations) = MaxZones

----------------------------------------------------------------------------
\* Properties of the Maintenance state machine.

MaintenanceExecutions == {e \in Executions : ex[e].wf = MAINTENANCE}

\* The executions of state machine wf that execution e triggered.
Children(e, wf) == {c \in Executions : ex[c].parent = e /\ ex[c].wf = wf}

\* Execution e has triggered a build of the image pipeline.
BuildTriggered(e) ==
  Call("startImagePipelineExecution", e, "ImagePipeline", TRUE) \in calls

\* The step choice AlreadyRunning? takes goes by the initial status: to the
\* Fail state AlreadyRunningPipeline when it is neither AVAILABLE nor
\* FAILED, else to the task that triggers the build.
GuardGoesByStatus ==
  \A e \in MaintenanceExecutions :
    (At(e, MAINTENANCE, "AlreadyRunning?") /\ ex'[e] # ex[e]) =>
      IF ex[e].ctx.PipelineStatus \notin {"AVAILABLE", "FAILED"}
      THEN ex'[e].status = "Failed" /\ ex'[e].pc = "AlreadyRunningPipeline"
      ELSE ex'[e].status = "Running" /\ ex'[e].pc = "TriggerImagePipelineTask"

\* Up to the guard, and in the Fail state of the guard, no build has been
\* triggered and nothing else was done; what the guard decides on is the
\* status the first task read.
NothingBeforeGuard ==
  \A e \in MaintenanceExecutions :
    ex[e].pc \in {"GetInitialImagePipelineStatusTask", "AlreadyRunning?",
                  "AlreadyRunningPipeline"} =>
      /\ \A c \in calls : c.by # e
      /\ ex[e].child = 0
      /\ ex[e].pc = "AlreadyRunningPipeline" => ex[e].status = "Failed"

\* C12: a Maintenance execution whose initial pipeline status is neither
\* AVAILABLE nor FAILED ends Failed in AlreadyRunningPipeline without having
\* triggered a build; one whose initial status is AVAILABLE or FAILED goes
\* on to the task that triggers a new build.
C12_PipelineGuard ==
  /\ []NothingBeforeGuard
  /\ [][GuardGoesByStatus]_vars

\* C12 witness: an execution has ended in AlreadyRunningPipeline while the
\* build it found is still in progress.
C12_Witness ==
  \E e \in MaintenanceExecutions :
    /\ ex[e].status = "Failed"
    /\ ex[e].pc = "AlreadyRunningPipeline"
    /\ imagePipeline = "BUILDING"

\* C13: in a Maintenance execution the Replacement execution is triggered
\* only after the build was triggered and a later status poll read
\* AVAILABLE; the Fallback execution is triggered only after the
\* Replacement execution has ended Succeeded; the execution waits in the
\* triggering task while the nested execution runs, and it ends Succeeded
\* only after the Fallback execution has.
C13_MaintenanceOrder ==
  \A e \in MaintenanceExecutions :
    /\ (ex[e].pc = "TriggerReplaceInstances" /\ ex[e].child = 0
          /\ ex[e].status = "Running") =>
         /\ BuildTriggered(e)
         /\ ex[e].ctx = [PipelineStatus |-> "AVAILABLE"]
    /\ Children(e, REPLACE) # {} => BuildTriggered(e)
    /\ \A r \in Children(e, REPLACE) :
         ex[r].status = "Running" => ex[e].pc = "TriggerReplaceInstances"
    /\ Children(e, FALLBACK) # {} =>
         /\ Children(e, REPLACE) # {}
         /\ \A r \in Children(e, REPLACE) : ex[r].status = "Succeeded"
    /\ \A f \in Children(e, FALLBACK) :
         ex[f].status = "Running" => ex[e].pc = "TriggerFallback"
    /\ ex[e].status = "Succeeded" =>
         /\ Children(e, FALLBACK) # {}
         /\ \A f \in Children(e, FALLBACK) : ex[f].status = "Succeeded"

\* C13 witness: over MaxZones zones a Maintenance execution has ended
\* Succeeded.
C13_Witness ==
  \E e \in MaintenanceExecutions :
    /\ ex[e].status = "Succeeded"
    /\ Len(azConfigurations) = MaxZones

\* The step choice Finished? takes on a poll that read FAILED leads to the
\* Fail state ImagePipeline.
FailedBuildFails ==
  \A e \in MaintenanceExecutions :
    (/\ At(e, MAINTENANCE, "Finished?")
     /\ ex[e].ctx.PipelineStatus = "FAILED"
     /\ ex'[e] # ex[e]) =>
      ex'[e].status = "Failed" /\ ex'[e].pc = "ImagePipeline"

\* A Maintenance execution in the Fail state ImagePipeline has triggered no
\* Replacement execution; one whose Replacement execution has ended Failed
\* (by a failed task or by its timeout) has triggered no Fallback execution
\* and waits for the end of the task or has ended Failed; one whose
\* Fallback execution has ended Failed does the same.
NestedFailureFails ==
  \A e \in MaintenanceExecutions :
    /\ ex[e].pc = "ImagePipeline" =>
         ex[e].status = "Failed" /\ Children(e, REPLACE) = {}
    /\ (\E r \in Children(e, REPLACE) : ex[r].status = "Failed") =>
         /\ Children(e, FALLBACK) = {}
         /\ \/ ex[e].status = "Running" /\ ex[e].pc = "TriggerReplaceInstances"
            \/ /\ ex[e].status = "Failed"
               /\ ex[e].pc \in {"Generic", "TriggerReplaceInstances"}
    /\ (\E f \in Children(e, FALLBACK) : ex[f].status = "Failed") =>
         \/ ex[e].status = "Running" /\ ex[e].pc = "TriggerFallback"
         \/ /\ ex[e].status = "Failed"
            /\ ex[e].pc \in {"Generic", "TriggerFallback"}

\* The step that ends the wait for a nested execution that has ended Failed
\* leads to the Fail state Generic.
JoinOfFailedFails ==
  \A e \in MaintenanceExecutions :
    (/\ Active(e)
     /\ ex[e].child # 0
     /\ ex[ex[e].child].status = "Failed"
     /\ ex'[e] # ex[e]
     /\ ~ExecutionTimeout(e)) =>
      ex'[e].status = "Failed" /\ ex'[e].pc = "Generic"

\* C14: a Maintenance execution ends Failed without triggering Replacement
\* when a status poll reads FAILED, ends Failed without triggering Fallback
\* when the nested Replacement execution ends Failed or timed out, and ends
\* Failed when the nested Fallback execution ends Failed.
C14_MaintenanceFailures ==
  /\ []NestedFailureFails
  /\ [][FailedBuildFails /\ JoinOfFailedFails]_vars

\* C14 witness: the nested Replacement execution has timed out and the
\* Maintenance execution has ended in the Fail state Generic.
C14_Witness ==
  \E e \in MaintenanceExecutions :
    /\ ex[e].status = "Failed"
    /\ ex[e].pc = "Generic"
    /\ \E r \in Children(e, REPLACE) :
         ex[r].status = "Failed" /\ ex[r].cause = "States.Timeout"
            /\ ex[r].pc = "InstancesReplacement"

\* Maintenance execution e is past the pipeline-status guard and has not
\* ended.
PastPipelineGuard(e) ==
  /\ ex[e].wf = MAINTENANCE
  /\ ex[e].status = "Running"
  /\ ex[e].pc \notin {"GetInitialImagePipelineStatusTask", "AlreadyRunning?"}

\* C15: at any time at most one Maintenance execution is past the
\* pipeline-status guard and not yet ended, however the started executions
\* interleave.
C15_OneMaintenancePastGuard ==
  Cardinality({e \in Executions : PastPipelineGuard(e)}) <= 1

\* C15 witness: two Maintenance executions run at once, one past the guard
\* with its build triggered, the other with its choice still to make.
C15_Witness ==
  \E e \in MaintenanceExecutions :
    /\ PastPipelineGuard(e)
    /\ BuildTriggered(e)
    /\ \E o \in MaintenanceExecutions :
         ex[o].status = "Running" /\ ex[o].pc = "AlreadyRunning?"

\* Instance i is running with its source/destination check disabled, which
\* the create branch does only after a poll of two 'ok'.
Ready(i) ==
  /\ instances[i].state = "running"
  /\ ~instances[i].sourceDestCheck

RoutesToNewInstances(e) ==
  \A k \in Zones :
    \E r \in Children(e, REPLACE) :
      /\ route[RouteTable(k)] \in LaunchedBy(r)
      /\ Ready(route[RouteTable(k)])
      /\ instances[route[RouteTable(k)]].subnet = azConfigurations[k].publicSubnetId

\* No instance that was running before any execution started still runs.
NoOldInstanceRuns ==
  \A i \in DOMAIN instances :
    instances[i].launchedBy = 0 => instances[i].state # "running"

\* C17: when a Maintenance execution has ended Succeeded, with no other
\* execution started, every zone's route targets a Ready instance launched
\* in the zone's public subnet by the nested Replacement execution, and no
\* instance that was running before the run still runs.
C17_MaintenanceRenewsInstances ==
  \A e \in MaintenanceExecutions :
    ex[e].status = "Succeeded" =>
      RoutesToNewInstances(e) /\ NoOldInstanceRuns

\* Every reservation of a listing holds one instance.
OnePerReservation(listing) ==
  \A r \in 1..Len(listing.Reservations) :
    Len(listing.Reservations[r].Instances) = 1

\* C17, when the listing of the nested Replacement execution holds one
\* instance per reservation: the same, and it holds.
C17_RenewsWhenOnePerReservation ==
  \A e \in MaintenanceExecutions :
    (/\ ex[e].status = "Succeeded"
     /\ \A r \in Children(e, REPLACE) : OnePerReservation(Listing(r))) =>
      RoutesToNewInstances(e) /\ NoOldInstanceRuns

\* C17 witness: over MaxZones zones a Maintenance execution has ended
\* Succeeded after a Replacement execution that listed MaxOld instances.
C17_Witness ==
  \E e \in MaintenanceExecutions :
    /\ ex[e].status = "Succeeded"
    /\ Len(azConfigurations) = MaxZones
    /\ \E r \in Children(e, REPLACE) :
         Cardinality(ListedInstances(Listing(r))) = MaxOld

----------------------------------------------------------------------------
\* Idempotence of Failover and Fallback.

Succeeded(wf) == {e \in Executions : ex[e].wf = wf /\ ex[e].status = "Succeeded"}

\* C18: whatever the routes were at the start and however many Failover
\* executions run, one after the other or interleaved, once one of them has
\* ended Succeeded every zone's route targets the zone's NAT gateway, and
\* no step of any other Failover execution changes a route any more: the
\* routes are those one successful Failover leaves.
C18_FailoverIdempotent ==
  /\ [](Succeeded(FAILOVER) # {} => route = RoutesToGateways(Len(azConfigurations)))
  /\ [][Succeeded(FAILOVER) # {} => route' = route]_vars

\* C18 witness: over MaxZones zones MaxFailoverStarts Failover executions
\* have ended Succeeded, the last call of one issued after the other ended.
C18_Witness ==
  /\ Len(azConfigurations) = MaxZones
  /\ Cardinality(Succeeded(FAILOVER)) = MaxFailoverStarts
  /\ Cardinality({c \in calls : c.api = "replaceRoute" /\ c.ok})
       = MaxFailoverStarts * MaxZones

\* At most one running NAT instance stands in each public subnet.
OnePerPublicSubnet ==
  \A k \in Zones :
    Cardinality({i \in DOMAIN instances :
                   /\ NatInstancesFilter(i)
                   /\ instances[i].subnet = azConfigurations[k].publicSubnetId}) <= 1

\* C19: with at most one running instance per public subnet and the set of
\* running instances unchanged, once a Fallback execution has ended
\* Succeeded no step of another Fallback execution changes a route: a
\* second successful run leaves the routes as the first run left them,
\* whatever they were before the first run.
C19_FallbackIdempotent ==
  [][(OnePerPublicSubnet /\ Succeeded(FALLBACK) # {}) => route' = route]_vars

\* C19 witness: over MaxZones zones, with an instance in every public
\* subnet, a second Fallback execution has ended Succeeded.
C19_Witness ==
  /\ Len(azConfigurations) = MaxZones
  /\ OnePerPublicSubnet
  /\ Cardinality(Succeeded(FALLBACK)) = FallbackRuns
  /\ \A k \in Zones : route[RouteTable(k)] \in DOMAIN instances

----------------------------------------------------------------------------
\* Failing tasks in the four state machines.

\* The Fail states of each state machine.
FailStates(wf) ==
  CASE wf = FAILOVER -> {"Failover"}
    [] wf = REPLACE -> {"ReplaceInstance", "AlreadyRunning"}
    [] wf = FALLBACK -> {"Fallback"}
    [] wf = MAINTENANCE -> {"Generic", "ImagePipeline", "AlreadyRunningPipeline"}

\* The execution of a failed call stands in a Fail state of its state
\* machine, Failed, with the error of the task as cause.
FailedCallInFailState ==
  \A c \in calls :
    ~c.ok =>
      /\ ex[c.by].status = "Failed"
      /\ ex[c.by].pc \in FailStates(ex[c.by].wf)
      /\ ex[c.by].cause \in TaskErrors

\* A step in which a task of execution e fails or times out (not the
\* timeout of the whole state machine) leads to a Fail state.
TaskFailureLeadsToFailState ==
  \A e \in Executions :
    (/\ ex[e].status = "Running"
     /\ ex'[e].status = "Failed"
     /\ ex'[e].cause \in TaskErrors
     /\ ~ExecutionTimeout(e)) =>
      ex'[e].pc \in FailStates(ex[e].wf)

\* An execution that has ended Failed takes no step and issues no call:
\* nothing is tried again.
NoRetry ==
  /\ \A e \in Executions : ex[e].status = "Failed" => ex'[e] = ex[e]
  /\ \A c \in calls' \ calls : ex[c.by].status = "Running"

----------------------------------------------------------------------------
\* Both branches of the Parallel state of execution e have ended, and so
\* has every item of their Map states.
BranchesSucceeded(e) ==
  /\ BranchAt(e, "terminate", "Done")
  /\ BranchAt(e, "create", "Done")
  /\ \A m \in DOMAIN ex[e].items :
       \A i \in 1..Len(ex[e].items[m]) : ex[e].items[m][i].pc = "Done"

\* A Replacement execution ends Succeeded only from a state in which both
\* branches have succeeded.
SucceedsOnlyWithBothBranches ==
  \A e \in ReplaceExecutions :
    (ex[e].status = "Running" /\ ex'[e].status = "Succeeded") =>
      BranchesSucceeded(e)

\* A step inside the Parallel state of execution e in which a call of a
\* branch fails, or which ends the execution Failed for another reason than
\* the timeout of the state machine.
BranchTaskFails(e) ==
  /\ At(e, REPLACE, "InstancesReplacement")
  /\ ex[e].par # EmptyDoc
  /\ \/ \E c \in calls' \ calls : c.by = e /\ ~c.ok
     \/ ex'[e].status = "Failed" /\ ~ExecutionTimeout(e)

\* Such a step ends the whole execution in the Fail state ReplaceInstance:
\* nothing of the other branch or of the other items goes on.
BranchFailureFailsExecution ==
  \A e \in ReplaceExecutions :
    BranchTaskFails(e) =>
      /\ ex'[e].status = "Failed"
      /\ ex'[e].pc = "ReplaceInstance"
      /\ ex'[e].cause \in TaskErrors
      /\ ex'[e].par = EmptyDoc
      /\ ex'[e].items = EmptyDoc

\* No execution with a failed call of a branch is Running or Succeeded.
FailedBranchCallMeansFailed ==
  \A c \in calls :
    (~c.ok /\ c.api \in ReplacementApis \cup
                        {"modifyInstanceAttribute.SourceDestCheck"}) =>
      ex[c.by].status = "Failed" /\ ex[c.by].pc = "ReplaceInstance"

\* C21: the Parallel state of Replacement succeeds only if the terminate
\* branch and the create branch both succeed; the failure of any task of
\* either branch, a single Map item included, fails the Parallel state and
\* the execution ends Failed.
C21_ParallelNeedsBothBranches ==
  /\ []FailedBranchCallMeansFailed
  /\ [][SucceedsOnlyWithBothBranches /\ BranchFailureFailsExecution]_vars

\* C21 witness: the source/destination call of one item of the create
\* branch has failed after the terminate branch had terminated an
\* instance, and the execution stands Failed in ReplaceInstance.
C21_Witness ==
  \E e \in ReplaceExecutions :
    /\ ex[e].status = "Failed"
    /\ ex[e].pc = "ReplaceInstance"
    /\ \E c \in CallsBy(e, "modifyInstanceAttribute.SourceDestCheck") : ~c.ok
    /\ \E c \in CallsBy(e, "terminateInstances") : c.ok

----------------------------------------------------------------------------
\* C22: a Maintenance execution whose pipeline status stays in progress is
\* Failed with a timeout no later than 30 minutes after it started: no
\* Maintenance execution is Running when more than 30 minutes have passed.
\* Violated: the state machine is built with a timeout of 60 minutes.
C22_TimeoutWithinThirtyMinutes ==
  \A e \in MaintenanceExecutions :
    ex[e].status = "Running" => clock <= 30

\* What the state machine does: an execution runs for 60 minutes at most,
\* and the one its timeout ends has run for 60 minutes.
C22_TimeoutAtSixtyMinutes ==
  \A e \in MaintenanceExecutions :
    /\ ex[e].status = "Running" => clock <= MAINTENANCE_TIMEOUT_MINUTES
    /\ (ex[e].status = "Failed" /\ WaitMinutes(ex[e].pc) > 0) =>
         /\ ex[e].cause = "States.Timeout"
         /\ clock = MAINTENANCE_TIMEOUT_MINUTES

\* C22 witness: the build is still in progress and the execution still
\* polls its status 40 minutes after the start.
C22_Witness ==
  \E e \in MaintenanceExecutions :
    /\ At(e, MAINTENANCE, "Finished?")
    /\ ex[e].ctx = [PipelineStatus |-> "BUILDING"]
    /\ build = "BUILDING"
    /\ clock = 40

----------------------------------------------------------------------------
\* The Map states of each state machine; Maintenance has none.
MapStates(wf) ==
  CASE wf = FAILOVER -> {"MapOfAZConfigurations"}
    [] wf = REPLACE -> {"DisableInstancesTerminationProtection",
                        "CreateNewInstances"}
    [] wf = FALLBACK -> {"Instances"}
    [] wf = MAINTENANCE -> {}

\* In every Map state at most 6 items have started and not ended.
AtMostSixInFlight ==
  \A e \in Executions :
    \A m \in DOMAIN ex[e].items :
      Cardinality(InFlight(ex[e].items[m])) <= 6

\* Branches run in the Parallel state of Replacement only, and there the
\* terminate branch and the create branch, no other.
ExactlyTwoBranches ==
  \A e \in Executions :
    ex[e].par # EmptyDoc =>
      /\ At(e, REPLACE, "InstancesReplacement")
      /\ DOMAIN ex[e].par = {"terminate", "create"}

\* Items run in the Map states of the execution's state machine only, and
\* those of Replacement inside the branch that holds the Map state; all
\* else an execution does, it does at the one state it stands at.
NothingElseConcurrent ==
  \A e \in Executions :
    /\ DOMAIN ex[e].items \subseteq MapStates(ex[e].wf)
    /\ ex[e].items # EmptyDoc => ex[e].status = "Running"
    /\ (ex[e].wf # REPLACE /\ ex[e].items # EmptyDoc) =>
         ex[e].pc \in MapStates(ex[e].wf)
    /\ Has(ex[e].items, "DisableInstancesTerminationProtection") =>
         /\ ex[e].par # EmptyDoc
         /\ ex[e].par.terminate.pc \in
              {"DisableInstancesTerminationProtection", "Done"}
    /\ Has(ex[e].items, "CreateNewInstances") =>
         /\ ex[e].par # EmptyDoc
         /\ ex[e].par.create.pc \in {"CreateNewInstances", "Done"}

\* C23: concurrency is bounded: in every Map state at most 6 items are in
\* flight at any time, the Parallel state runs exactly 2 branches, and no
\* other state runs anything concurrently within one execution.
C23_BoundedConcurrency ==
  /\ AtMostSixInFlight
  /\ ExactlyTwoBranches
  /\ NothingElseConcurrent

\* C23 witness: of the 7 items of the terminate Map state 6 are in flight
\* and one waits in the queue, while the create branch runs an item too.
C23_Witness ==
  \E e \in ReplaceExecutions :
    /\ Has(ex[e].items, "DisableInstancesTerminationProtection")
    /\ Has(ex[e].items, "CreateNewInstances")
    /\ LET its == ex[e].items["DisableInstancesTerminationProtection"]
       IN /\ Len(its) = 7
          /\ Cardinality(InFlight(its)) = 6
          /\ \E i \in 1..Len(its) : its[i].pc = "Queued"
    /\ InFlight(ex[e].items["CreateNewInstances"]) # {}

----------------------------------------------------------------------------
\* The Task states of the four state machines.
TaskStates ==
  {"ReplaceRouteTask",
   "GetStateMachineRunningTask", "TriggerFailover", "GetNatInstancesTask",
   "DisableTerminationProtectionTask", "TerminateOldInstanceTask",
   "GetNatInstanceImageTask", "RunNatInstanceTask", "GetInstanceStateTask",
   "DisableSourceDestCheckTask",
   "GetRunningNatInstancesTask", "ReplaceInstanceRouteTask",
   "GetInitialImagePipelineStatusTask", "TriggerImagePipelineTask",
   "GetImagePipelineStatusTask", "TriggerReplaceInstances", "TriggerFallback"}

\* The resultPath a Task state declares, as the field of the context it
\* names; "" for a Task state that declares none.
TaskResultPath(task) ==
  CASE task \in {"GetNatInstancesTask", "GetRunningNatInstancesTask"} ->
         "NatInstances"
    [] task = "GetNatInstanceImageTask" -> "Image"
    [] task = "GetInstanceStateTask" -> "Instance"
    [] task = "DisableTerminationProtectionTask" -> "DisableTerminationProtection"
    [] OTHER -> ""

\* The fields of the result of a Task state that declares no resultPath:
\* those of its resultSelector, or of the response.
TaskResultFields(task) ==
  CASE task = "RunNatInstanceTask" -> {"InstanceId"}
    [] task = "GetStateMachineRunningTask" -> {"Executions"}
    [] task \in {"GetInitialImagePipelineStatusTask",
                 "GetImagePipelineStatusTask"} -> {"PipelineStatus"}
    [] task = "TriggerImagePipelineTask" -> {"ImageBuildVersionArn"}
    [] task \in {"TriggerFailover", "TriggerReplaceInstances",
                 "TriggerFallback"} -> {"Output", "Status"}
    [] OTHER -> {}

\* The Task states that end without error in the step taken, each with its
\* input and its output: <<task, input, output>>. A Task state of an
\* execution ends when the execution leaves it, one of a Map item when the
\* item leaves it.
TasksEnded ==
  LET byExecution ==
        {<<ex[e].pc, ex[e].ctx, ex'[e].ctx>> :
           e \in {x \in Executions :
                    /\ ex[x].status = "Running"
                    /\ ex[x].pc \in TaskStates
                    /\ ex'[x].status # "Failed"
                    /\ ex'[x].pc # ex[x].pc}}
      Task(it) == IF it.pc = "Queued" THEN it.first ELSE it.pc
      items ==
        UNION {UNION {{<<e, m, i>> : i \in 1..Len(ex[e].items[m])}
                        : m \in DOMAIN ex[e].items \cap DOMAIN ex'[e].items}
                 : e \in Executions}
      byItem ==
        {<<Task(ex[t[1]].items[t[2]][t[3]]),
           ex[t[1]].items[t[2]][t[3]].ctx,
           ex'[t[1]].items[t[2]][t[3]].ctx>> :
           t \in {u \in items :
                    /\ Task(ex[u[1]].items[u[2]][u[3]]) \in TaskStates
                    /\ ex'[u[1]].items[u[2]][u[3]].pc #
                         ex[u[1]].items[u[2]][u[3]].pc}}
  IN byExecution \cup byItem

\* Every field of the input but the one at path is in the output, with the
\* same value.
KeepsOtherFields(input, output, path) ==
  \A f \in DOMAIN input \ {path} :
    f \in DOMAIN output /\ output[f] = input[f]

\* C24 as stated: after any Task state every field of its input that is
\* not the declared result path is still present with the same value.
\* Violated: a Task state that declares no resultPath, RunNatInstanceTask
\* for one, puts its result in the place of its input.
C24_TasksKeepOtherFields ==
  [][\A t \in TasksEnded : KeepsOtherFields(t[2], t[3], TaskResultPath(t[1]))]_vars

\* C24 amended: a Task state that declares a resultPath writes its result
\* there and keeps every other field of its input; the output of a Task
\* state that declares none is its result alone.
C24_DeclaredPathKeepsOtherFields ==
  [][\A t \in TasksEnded :
       IF TaskResultPath(t[1]) # ""
       THEN /\ TaskResultPath(t[1]) \in DOMAIN t[3]
            /\ KeepsOtherFields(t[2], t[3], TaskResultPath(t[1]))
       ELSE DOMAIN t[3] \subseteq TaskResultFields(t[1])]_vars

\* C24 witness: in a Replacement execution the listing stands at
\* $.NatInstances beside the output of TriggerFailover, while an item of the
\* create branch is left with the $.InstanceId of RunNatInstanceTask alone.
C24_Witness ==
  \E e \in ReplaceExecutions :
    /\ At(e, REPLACE, "InstancesReplacement")
    /\ DOMAIN ex[e].ctx = {"NatInstances", "Output", "Status"}
    /\ Has(ex[e].items, "CreateNewInstances")
    /\ \E i \in 1..Len(ex[e].items["CreateNewInstances"]) :
         LET it == ex[e].items["CreateNewInstances"][i]
         IN it.pc = "WaitForRun" /\ DOMAIN it.ctx = {"InstanceId"}

----------------------------------------------------------------------------
\* C25: whenever a Replacement execution terminates an instance, no route
\* targets that instance at that moment, whatever Fallback and Failover
\* executions started independently do in between. Violated: a Fallback
\* execution that lists the old instance after the nested Failover and
\* before the termination puts the route back on it.
C25_TerminatedInstanceHasNoRoute ==
  [][\A c \in calls' \ calls :
       (c.api = "terminateInstances" /\ c.ok /\ ex[c.by].wf = REPLACE) =>
         \A r \in DOMAIN route : route[r] # c.arg]_vars

\* C25 witness: the route of the zone targets an instance a Replacement
\* execution has terminated, after the nested Failover had succeeded and a
\* Fallback execution had put the route on that instance.
C25_Witness ==
  \E r \in DOMAIN route :
    /\ route[r] \in DOMAIN instances
    /\ instances[route[r]].state = "terminated"
    /\ \E c \in calls :
         /\ c.api = "terminateInstances" /\ c.ok /\ c.arg = route[r]
         /\ ex[c.by].wf = REPLACE
         /\ ex[c.by].child # 0
         /\ ex[ex[c.by].child].status = "Succeeded"
    /\ \E c \in calls :
         /\ c.api = "replaceRoute" /\ c.ok /\ c.arg = <<r, route[r]>>
         /\ ex[c.by].wf = FALLBACK

----------------------------------------------------------------------------
\* The disable-termination-protection calls of execution e for instance id.
DisableCalls(e, id) ==
  {c \in CallsBy(e, "modifyInstanceAttribute.DisableApiTermination") : c.arg = id}

\* The terminate calls of execution e for instance id.
TerminateCalls(e, id) ==
  {c \in CallsBy(e, "terminateInstances") : c.arg = id}

\* C26: in the terminate branch of Replacement a terminate call is issued
\* for an instance only after the disable-termination-protection call of
\* the same execution for the same instance id has succeeded, and after a
\* failed disable call no terminate call is issued for that instance. As
\* the invariant holds in every state, the disable call was there when the
\* terminate call was issued.
C26_DisableBeforeTerminate ==
  \A e \in ReplaceExecutions :
    /\ \A id \in DOMAIN instances :
         /\ TerminateCalls(e, id) # {} => \E d \in DisableCalls(e, id) : d.ok
         /\ (\E d \in DisableCalls(e, id) : ~d.ok) => TerminateCalls(e, id) = {}
    /\ Has(ex[e].items, "DisableInstancesTerminationProtection") =>
         \A i \in 1..Len(ex[e].items["DisableInstancesTerminationProtection"]) :
           LET it == ex[e].items["DisableInstancesTerminationProtection"][i]
           IN it.pc = "TerminateOldInstanceTask" =>
                /\ \E d \in DisableCalls(e, ReservationInstanceId(it.ctx)) : d.ok
                /\ TerminateCalls(e, ReservationInstanceId(it.ctx)) = {}

\* C26 witness: of two listed instances one has been terminated after its
\* protection was disabled, and the disable call for the other has failed,
\* which has had no terminate call.
C26_Witness ==
  \E e \in ReplaceExecutions :
    \E a, b \in DOMAIN instances :
      /\ a # b
      /\ \E c \in TerminateCalls(e, a) : c.ok
      /\ \E d \in DisableCalls(e, a) : d.ok
      /\ \E d \in DisableCalls(e, b) : ~d.ok
      /\ TerminateCalls(e, b) = {}

----------------------------------------------------------------------------
\* C27: a Maintenance execution triggers the Replacement execution only
\* after the build it has started itself has reached AVAILABLE; the
\* AVAILABLE of an earlier build does not start it. Violated: the status
\* task reads the first build the list shows, whichever build that is.
C27_ReplacementAfterOwnBuild ==
  \A e \in MaintenanceExecutions :
    (ex[e].pc = "TriggerReplaceInstances" \/ Children(e, REPLACE) # {}) =>
      build = "AVAILABLE"

\* C27 witness: the Replacement execution has been started on the
\* AVAILABLE of the earlier build while the build this execution started
\* is in progress.
C27_Witness ==
  \E e \in MaintenanceExecutions :
    /\ Children(e, REPLACE) # {}
    /\ \E c \in CallsBy(e, "startImagePipelineExecution") : c.ok
    /\ imagePipeline = "AVAILABLE"
    /\ build = "BUILDING"

----------------------------------------------------------------------------
\* C28: a Replacement execution whose listing succeeded and holds itself
\* alone passes the guard and triggers Failover: it stands before the
\* choice, or at TriggerFailover with the start of the Failover execution
\* at hand, or it has issued that start; it never stands in AlreadyRunning.
C28_SoleExecutionPassesGuard ==
  \A e \in ReplaceExecutions :
    <<e>> \in ListedRunning(e) =>
      /\ ex[e].pc # "AlreadyRunning"
      /\ \/ At(e, REPLACE, "AlreadyRunningStateMachine?")
         \/ /\ At(e, REPLACE, "TriggerFailover")
            /\ ex[e].child = 0
            /\ ENABLED TriggerFailover(e)
         \/ CallsBy(e, "startExecution") # {}

\* C28 witness: the second execution started found the first one ended,
\* listed itself alone, and has triggered its Failover execution.
C28_Witness ==
  \E e \in ReplaceExecutions :
    /\ e > 1
    /\ <<e>> \in ListedRunning(e)
    /\ ex[1].wf = REPLACE
    /\ ex[1].status # "Running"
    /\ \E c \in CallsBy(e, "startExecution") : c.ok

----------------------------------------------------------------------------
\* The states of an item of CreateNewInstances after the launch.
AfterLaunchStates == PollLoopStates \cup {"DisableSourceDestCheckTask"}

\* An item enters the status poll from the Wait state WaitForRun only, and
\* it leaves RunNatInstanceTask for that Wait state.
PollOnlyAfterWait ==
  \A e \in ReplaceExecutions :
    \A i \in 1..Len(CreateItems(e)) :
      LET pc == CreateItems(e)[i].pc
          next == ex'[e].items["CreateNewInstances"][i].pc
      IN (ex'[e].status = "Running" /\ next # pc) =>
           /\ next = "GetInstanceStateTask" => pc = "WaitForRun"
           /\ (pc = "RunNatInstanceTask"
                 \/ (pc = "Queued" /\ next \in AfterLaunchStates)) =>
                next = "WaitForRun"

\* After the launch item i holds the id of the instance its own execution
\* launched in the public subnet of zone configuration i; the status poll
\* asks for that id and no other.
ItemKeepsItsInstance ==
  \A e \in ReplaceExecutions :
    \A i \in 1..Len(CreateItems(e)) :
      CreateItems(e)[i].pc \in AfterLaunchStates =>
        LET id == CreateItems(e)[i].ctx.InstanceId
        IN /\ id \in DOMAIN instances
           /\ instances[id].launchedBy = e
           /\ instances[id].subnet = azConfigurations[i].publicSubnetId
           /\ GetInstanceStateParameters(CreateItems(e)[i].ctx).InstanceIds
                = <<id>>
           /\ \A j \in 1..Len(CreateItems(e)) :
                (j # i /\ CreateItems(e)[j].pc \in AfterLaunchStates) =>
                  CreateItems(e)[j].ctx.InstanceId # id

\* The source/destination check is turned off for the instance of the item
\* that asks for it.
CheckOffForOwnInstance ==
  \A c \in calls' \ calls :
    c.api = "modifyInstanceAttribute.SourceDestCheck" =>
      \E i \in 1..Len(CreateItems(c.by)) :
        /\ CreateItems(c.by)[i].pc = "DisableSourceDestCheckTask"
        /\ CreateItems(c.by)[i].ctx.InstanceId = c.arg
        /\ instances[c.arg].launchedBy = c.by
        /\ instances[c.arg].subnet = azConfigurations[i].publicSubnetId

\* C29: in the poll loop of Replacement every status poll, the first after
\* the launch included, comes after the 10-second Wait state, and the
\* instance whose status is polled and whose source/destination check is
\* disabled at the end is the one launched for the same zone item.
C29_PollAfterWaitForOwnInstance ==
  /\ []ItemKeepsItsInstance
  /\ [][PollOnlyAfterWait /\ CheckOffForOwnInstance]_vars

\* C29 witness: over two zones one item has had its check disabled after a
\* poll, while the other, whose last poll was not two 'ok', waits for its
\* next poll with the id of its own instance.
C29_Witness ==
  \E e \in ReplaceExecutions :
    /\ Len(CreateItems(e)) = 2
    /\ \E c \in CallsBy(e, "modifyInstanceAttribute.SourceDestCheck") : c.ok
    /\ \E i \in 1..2 :
         /\ CreateItems(e)[i].pc = "WaitForRun"
         /\ instances[CreateItems(e)[i].ctx.InstanceId].subnet =
              azConfigurations[i].publicSubnetId

\* The calls of execution e that disable termination protection or
\* terminate, for whatever instance.
TerminateBranchCalls(e) ==
  CallsBy(e, "modifyInstanceAttribute.DisableApiTermination")
    \cup CallsBy(e, "terminateInstances")

\* C30: a Replacement execution whose listing returned no running NAT
\* instance issues no disable-termination-protection call and no terminate
\* call; its terminate branch goes from AnyInstance? to NoOp and ends
\* there, it never enters the Map state; once both branches have ended the
\* execution can end Succeeded; and when it has ended Succeeded it has
\* launched exactly one instance per zone configuration, in the zone's
\* public subnet.
C30_EmptyListingStillLaunches ==
  \A e \in ReplaceExecutions :
    EmptyListing(e) =>
      /\ TerminateBranchCalls(e) = {}
      /\ ~Has(ex[e].items, "DisableInstancesTerminationProtection")
      /\ (ex[e].status = "Running" /\ Has(ex[e].par, "terminate")) =>
           ex[e].par.terminate.pc \in {"AnyInstance?", "NoOp", "Done"}
      /\ BranchesSucceeded(e) => ENABLED InstancesReplacementEnd(e)
      /\ ex[e].status = "Succeeded" =>
           /\ Cardinality(LaunchedBy(e)) = Len(azConfigurations)
           /\ \A k \in Zones :
                \E i \in LaunchedBy(e) :
                  instances[i].subnet = azConfigurations[k].publicSubnetId

\* C30 witness: over MaxZones zones a Replacement execution has listed no
\* instance and has ended Succeeded with MaxZones instances launched.
C30_Witness ==
  \E e \in ReplaceExecutions :
    /\ EmptyListing(e)
    /\ ex[e].status = "Succeeded"
    /\ Len(azConfigurations) = MaxZones
    /\ Cardinality(LaunchedBy(e)) = MaxZones

\* C31: a Replacement execution never disables the termination protection
\* of, nor terminates, an instance it launched itself. Every disable or
\* terminate call of the execution, and every item of its Map state
\* DisableInstancesTerminationProtection, addresses an instance of the
\* listing the execution took before the Parallel state, none of which the
\* execution launched; the instances it launched stay running.
C31_NeverTerminatesOwnLaunch ==
  \A e \in ReplaceExecutions :
    /\ \A c \in TerminateBranchCalls(e) :
         /\ c.arg \in ListedInstances(Listing(e))
         /\ c.arg \notin LaunchedBy(e)
    /\ \A id \in LaunchedBy(e) :
         /\ id \notin ListedInstances(Listing(e))
         /\ instances[id].state = "running"
    /\ Has(ex[e].items, "DisableInstancesTerminationProtection") =>
         \A i \in 1..Len(ex[e].items["DisableInstancesTerminationProtection"]) :
           LET it == ex[e].items["DisableInstancesTerminationProtection"][i]
           IN it.pc # "Done" =>
                /\ ReservationInstanceId(it.ctx) \in ListedInstances(Listing(e))
                /\ ReservationInstanceId(it.ctx) \notin LaunchedBy(e)

\* C31 witness: an execution has launched its MaxZones instances, which are
\* running with the tags the listing filters on, has terminated one listed
\* instance, and an item of its terminate Map state is still to make its
\* calls.
C31_Witness ==
  \E e \in ReplaceExecutions :
    /\ ex[e].status = "Running"
    /\ Cardinality(LaunchedBy(e)) = MaxZones
    /\ \A id \in LaunchedBy(e) : NatInstancesFilter(id)
    /\ \E c \in CallsBy(e, "terminateInstances") : c.ok
    /\ Has(ex[e].items, "DisableInstancesTerminationProtection")
    /\ \E i \in 1..Len(ex[e].items["DisableInstancesTerminationProtection"]) :
         ex[e].items["DisableInstancesTerminationProtection"][i].pc
           \in {"Queued", "DisableTerminationProtectionTask"}

\* The nested Failover execution of Replacement execution e has ended
\* Succeeded.
FailoverSucceeded(e) ==
  \E c \in Children(e, FAILOVER) : ex[c].status = "Succeeded"

\* Every zone's default route targets the zone's standby gateway.
AllRoutesOnGateways == \A k \in Zones : route[RouteTable(k)] = Gateway(k)

\* No replaceRoute call is a Replacement execution's own, and a Replacement
\* execution that has ended Failed, by a failed task or by its timeout,
\* after its nested Failover succeeded leaves every route on its gateway.
FailedReplacementLeavesGateways ==
  \A e \in ReplaceExecutions :
    /\ CallsBy(e, "replaceRoute") = {}
    /\ (ex[e].status = "Failed" /\ FailoverSucceeded(e)) => AllRoutesOnGateways

\* A step that changes a route is a successful replaceRoute call of a
\* Failover execution nested in a Replacement execution, and puts the
\* route of a zone on the zone's standby gateway.
OnlyNestedFailoverRoutes ==
  \A k \in Zones :
    route'[RouteTable(k)] # route[RouteTable(k)] =>
      /\ route'[RouteTable(k)] = Gateway(k)
      /\ \E c \in calls' \ calls :
           /\ c.api = "replaceRoute"
           /\ c.ok
           /\ c.arg = <<RouteTable(k), Gateway(k)>>
           /\ ex[c.by].wf = FAILOVER
           /\ ex[c.by].parent \in ReplaceExecutions

\* C32: with no other execution interleaving, Replacement itself never
\* points a route at an instance: the only steps that change a route are
\* the replaceRoute calls of its nested Failover, which put it on the
\* zone's standby gateway, and whenever a Replacement execution has ended
\* Failed (a failed task or the timeout) after its Failover succeeded,
\* every zone's default route targets its standby gateway.
C32_ReplacementRoutesOnlyByFailover ==
  /\ []FailedReplacementLeavesGateways
  /\ [][OnlyNestedFailoverRoutes]_vars

\* C32 witness: over MaxZones zones a Replacement execution that listed
\* MaxOld instances has launched its instances and then has ended by its
\* timeout, after its Failover succeeded.
C32_Witness ==
  \E e \in ReplaceExecutions :
    /\ ex[e].status = "Failed"
    /\ ex[e].cause = "States.Timeout"
    /\ FailoverSucceeded(e)
    /\ Len(azConfigurations) = MaxZones
    /\ Cardinality(LaunchedBy(e)) = MaxZones
    /\ Cardinality({c.arg : c \in CallsBy(e, "runInstances")}) = MaxZones
    /\ AllRoutesOnGateways

\* The instances an execution launched that are running.
LaunchedRunning ==
  {id \in DOMAIN instances :
     instances[id].launchedBy # 0 /\ instances[id].state = "running"}

\* C33: every running instance a Replacement execution launched carries
\* the tags Name = NAT and StateMachine = NATInstanceReplaceInstance and is
\* returned by the listing describeInstances; a running instance launched
\* by the same task in an execution of any other state machine is not
\* returned by it.
C33_ListingFindsReplacementLaunches ==
  \A id \in LaunchedRunning :
    LET wf == ex[instances[id].launchedBy].wf
    IN /\ wf = REPLACE =>
            /\ instances[id].tagName = "NAT"
            /\ instances[id].tagStateMachine = "NATInstanceReplaceInstance"
            /\ id \in ListedInstances(DescribeInstances)
       /\ wf # REPLACE => id \notin ListedInstances(DescribeInstances)

\* C33 witness: an execution of another state machine has launched
\* MaxZones instances, all running, while an older instance is listed.
C33_Witness ==
  \E e \in Executions :
    /\ ex[e].wf # REPLACE
    /\ Len(azConfigurations) = MaxZones
    /\ Cardinality(LaunchedBy(e) \cap LaunchedRunning) = MaxZones
    /\ ListedInstances(DescribeInstances) # {}

\* A Replacement execution has launched MaxZones instances, all running
\* and all listed.
ReplacementLaunchesListed ==
  \E e \in ReplaceExecutions :
    /\ Len(azConfigurations) = MaxZones
    /\ Cardinality(LaunchedBy(e) \cap LaunchedRunning) = MaxZones
    /\ LaunchedBy(e) \subseteq ListedInstances(DescribeInstances)

\* The subnet is the public subnet of no zone configuration.
UnrelatedSubnet(s) ==
  \A k \in Zones : azConfigurations[k].publicSubnetId # s

\* Of the descriptions ds, those of an instance in an unrelated subnet.
Unrelated(ds) == {d \in ds : UnrelatedSubnet(d.SubnetId)}

\* Execution e has made no replaceRoute call, successful or not, with one
\* of the instances of ds as target, and has not ended Succeeded when ds
\* is not empty.
NoRouteAndNoSuccess(e, ds) ==
  /\ \A d \in ds :
       \A c \in CallsBy(e, "replaceRoute") : c.arg[2] # d.InstanceId
  /\ ds # {} => ex[e].status # "Succeeded"

\* No step puts a route on an instance that stands in an unrelated subnet.
NoRouteToUnrelated ==
  \A k \in Zones :
    \A i \in DOMAIN instances :
      (UnrelatedSubnet(instances[i].subnet) /\ route'[RouteTable(k)] = i)
        => route[RouteTable(k)] = i

\* An item whose filter selected no zone configuration stays at
\* ReplaceInstanceRouteTask until the execution ends Failed, which the
\* step of the task does: the item never goes on.
UnresolvedRouteTableFails ==
  \A e \in FallbackExecutions :
    \A i \in ItemIndexes :
      (/\ ItemAt(e, "Instances", i, "ReplaceInstanceRouteTask")
       /\ Len(ex[e].items["Instances"][i].ctx.RouteTable) = 0)
        => \/ ex'[e].status = "Failed"
           \/ /\ ex'[e].status = "Running"
              /\ ex'[e].items["Instances"][i] = ex[e].items["Instances"][i]

C34_UnrelatedFirstOfReservationFails ==
  /\ [](\A e \in FallbackExecutions :
          NoRouteAndNoSuccess(e, Unrelated(FirstDescriptions(Listing(e)))))
  /\ [][NoRouteToUnrelated /\ UnresolvedRouteTableFails]_vars

UnrelatedSecondOfReservationSucceeds ==
  \E e \in FallbackExecutions :
    /\ Unrelated(ListedDescriptions(Listing(e))) # {}
    /\ ex[e].status = "Succeeded"

\* Replacement execution a has listed execution b as running.
Observed(a, b) ==
  \E l \in ListedRunning(a) : \E j \in 1..Len(l) : l[j] = b

\* C35: two Replacement executions that observe each other in their
\* listings of running executions both go from the choice to the Fail
\* state AlreadyRunning and nowhere else: neither triggers a Failover nor
\* makes any call besides its listing, so neither performs the
\* replacement. The witness shows that the case happens: the guard does
\* not make one of two contenders proceed.
C35_MutualObserversBothFail ==
  \A a, b \in ReplaceExecutions :
    (a # b /\ Observed(a, b) /\ Observed(b, a)) =>
      \A x \in {a, b} :
        /\ \/ ex[x].status = "Running" /\ ex[x].pc = "AlreadyRunningStateMachine?"
           \/ /\ ex[x].status = "Failed"
              /\ ex[x].pc = "AlreadyRunning"
        /\ ex[x].child = 0
        /\ LaunchedBy(x) = {}
        /\ \A c \in calls : c.by = x => c.api = "listExecutions"

\* C35 witness: the two executions started have observed each other and
\* both have ended Failed in AlreadyRunning; no other execution exists, no
\* Failover was triggered, no instance launched and no call made besides
\* the two listings.
C35_Witness ==
  /\ Len(ex) = 2
  /\ \A x \in 1..2 :
       /\ ex[x].wf = REPLACE
       /\ ex[x].status = "Failed"
       /\ ex[x].pc = "AlreadyRunning"
  /\ Observed(1, 2)
  /\ Observed(2, 1)
  /\ \A c \in calls : c.api = "listExecutions"
  /\ \A i \in DOMAIN instances : instances[i].launchedBy = 0

\* Every step leaves the route of a zone on the target it has or puts it on
\* the zone's standby gateway; so a route that is on its gateway stays
\* there.
RouteKeptOrOnGateway ==
  \A k \in Zones :
    route'[RouteTable(k)] \in {route[RouteTable(k)], Gateway(k)}

\* The step in which a Failover execution ends Failed changes no route, and
\* an execution that has ended Failed makes no call any more.
FailureUndoesNothing ==
  \A e \in FailoverExecutions :
    /\ (ex[e].status = "Running" /\ ex'[e].status = "Failed") => route' = route
    /\ ex[e].status = "Failed" => \A c \in calls' \ calls : c.by # e

\* The routes a Failover execution that has ended Failed replaced are on
\* the gateways it put them on.
ReplacedRoutesStay ==
  \A e \in FailoverExecutions :
    ex[e].status = "Failed" =>
      \A c \in CallsBy(e, "replaceRoute") : c.ok => route[c.arg[1]] = c.arg[2]

\* C36: a Failover execution that ends Failed rolls nothing back: the
\* routes it replaced stay on the zones' standby gateways, the step that
\* ends it changes no route, it makes no call afterwards, and every step
\* leaves each zone's route on the target it had or puts it on the zone's
\* standby gateway, never on another target.
C36_FailedFailoverNoRollback ==
  /\ []ReplacedRoutesStay
  /\ [][RouteKeptOrOnGateway /\ FailureUndoesNothing]_vars

\* C36 witness: a Failover execution has ended Failed after it put the
\* route of one zone on its gateway, and the route of the zone whose call
\* failed is on the target it had, which is not the zone's gateway.
C36_Witness ==
  \E e \in FailoverExecutions :
    /\ ex[e].status = "Failed"
    /\ \E c \in CallsBy(e, "replaceRoute") : c.ok /\ route[c.arg[1]] = c.arg[2]
    /\ \E d \in CallsBy(e, "replaceRoute") : ~d.ok /\ route[d.arg[1]] # d.arg[2]

\* The status poll of Maintenance is entered from a Wait state only: the
\* first time from WaitForPipelineToRun, which follows the trigger of the
\* build, then from WaitToFetchStatusAgain, which is entered from the
\* choice Finished? when the status is neither FAILED nor AVAILABLE.
MaintenancePollLoop ==
  \A e \in MaintenanceExecutions :
    LET pc == ex[e].pc
        next == ex'[e].pc
    IN (ex'[e].status = "Running" /\ next # pc) =>
         /\ next = "GetImagePipelineStatusTask" =>
              pc \in {"WaitForPipelineToRun", "WaitToFetchStatusAgain"}
         /\ next = "WaitForPipelineToRun" => pc = "TriggerImagePipelineTask"
         /\ next = "WaitToFetchStatusAgain" =>
              /\ pc = "Finished?"
              /\ ex[e].ctx.PipelineStatus \notin {"FAILED", "AVAILABLE"}

\* Every execution that runs is eventually Succeeded or Failed.
EveryExecutionEnds ==
  \A e \in MaintenanceRun :
    Active(e) ~> (e \in Executions /\ ex[e].status \in {"Succeeded", "Failed"})

\* C37: every execution of the four state machines ends Succeeded or
\* Failed, whatever the provider answers and however long the image build
\* takes, given that every task call returns or hits its task timeout and
\* that time passes in the Wait states: the poll loops of Replacement and
\* of Maintenance are cut by the timeout of the state machine. The poll
\* loop of Maintenance waits 10 minutes before the first poll and 2
\* minutes before each later one, which it makes while the status is
\* neither FAILED nor AVAILABLE.
C37_EveryExecutionEnds ==
  /\ EveryExecutionEnds
  /\ [][MaintenancePollLoop]_vars
  /\ [](/\ WaitMinutes("WaitForPipelineToRun") = 10
        /\ WaitMinutes("WaitToFetchStatusAgain") = 2)

\* C37 witness: the Maintenance execution has polled the status of the
\* build again and again and has ended by its timeout while the build was
\* still running.
C37_Witness ==
  \E e \in MaintenanceExecutions :
    /\ ex[e].status = "Failed"
    /\ ex[e].cause = "States.Timeout"
    /\ ex[e].pc = "WaitToFetchStatusAgain"
    /\ imagePipeline = "BUILDING"

\* The seconds at which the rule has fired.
Triggers == {c.arg : c \in {d \in calls : d.api = "trigger"}}

\* The rule fires every period seconds, from second 0 on, and no run of a
\* function lasts longer than period seconds.
CheckerRunsEvery(period) ==
  /\ \A t \in Triggers : t % period = 0
  /\ \A p \in 0..(clock \div period) : p * period < clock => p * period \in Triggers
  /\ \A t \in RunStarts : clock - t <= period

\* C38: the connectivity checker functions are triggered every minute and
\* each run lasts one minute or less: the period of the rule and the
\* timeout of the functions are both 60 seconds.
C38_CheckerEveryMinute == CheckerRunsEvery(60)

\* C38, with the period and the timeout of the code: the functions are
\* triggered every 300 seconds and each run lasts 300 seconds or less.
C38_CheckerEveryFiveMinutes == CheckerRunsEvery(300)

\* C38 witness: the run of a function that started with the first trigger
\* lasts for more than a minute, and the rule has not fired again.
C38_Witness ==
  /\ 0 \in RunStarts
  /\ clock > 60
  /\ Triggers = {0}

\* The parts of a name are not empty: the name is not empty, does not start
\* or end with a dash, and has no two dashes in a row.
NonEmptyParts(name) ==
  /\ Len(name) > 0
  /\ name[1] # "-"
  /\ name[Len(name)] # "-"
  /\ \A i \in 1..(Len(name) - 1) : ~(name[i] = "-" /\ name[i + 1] = "-")

\* The characters of a name that are not dashes, in order, the ones that
\* start a part upper-cased and the others as they are.
CamelCased(name) ==
  LET kept == SortedSeq({i \in 1..Len(name) : name[i] # "-"})
  IN [j \in 1..Len(kept) |->
        IF kept[j] = 1 \/ name[kept[j] - 1] = "-"
        THEN toUpperCase(name[kept[j]])
        ELSE name[kept[j]]]

\* C39: for every availability-zone name made of non-empty dash-separated
\* parts, getCamelCaseAvailabilityZoneName returns the parts concatenated in
\* order, the first character of each part upper-cased, the rest unchanged
\* and the dashes removed: the stack does not throw on such a name, and every
\* parameter it creates for the zone carries that value.
C39_CamelCaseOfNonEmptyParts ==
  \A c \in calls :
    NonEmptyParts(c.arg[2]) =>
      /\ c.api = "StringParameter"
      /\ c.arg[1][2] = CamelCased(c.arg[2])

\* C39 witness: the stack has created the parameters of zone eu-west-1a
\* with EuWest1a in their names, and those of a zone whose name has a part
\* of two lower-case letters.
C39_Witness ==
  /\ \E c \in calls :
       /\ c.arg[2] = <<"e", "u", "-", "w", "e", "s", "t", "-", "1", "a">>
       /\ c.arg[1] = <<"PrivateSubnet",
                       <<"E", "u", "W", "e", "s", "t", "1", "a">>, "Id">>
  /\ \E c \in calls :
       /\ c.arg[2] = <<"a", "-", "e">>
       /\ c.arg[1] = <<"PublicSubnet", <<"A", "E">>, "NatGatewayId">>

\* A name with an empty part makes the stack throw, and nothing is created
\* after that.
EmptyPartThrows ==
  /\ Len(azConfigurations) = 1
  /\ ~NonEmptyParts(azConfigurations[1].availabilityZone)
  /\ SynthFailed
  /\ ~ENABLED NextVpcStack

====
